---------------------------- MODULE Spec2Model ----------------------------
(***************************************************************************)
(* Concept-map pipeline of the ConceptMap SaaS repository.                 *)
(*                                                                         *)
(* Three service variants are modelled, each from its own source file:     *)
(*   "service"  server/services/conceptMapService.js, the module the       *)
(*              controller requires;                                       *)
(*   "part004"  src/unnamed/part_004, the variant with title/list based    *)
(*              extraction, hierarchical edges and batched enrichment;     *)
(*   "part003"  src/unnamed/part_003 lines 1-1508, the "pipeline 2.0"      *)
(*              variant that validates its input.                          *)
(* Definitions of the second and third variant carry the suffix _p4 / _p3. *)
(*                                                                         *)
(* Numbers: JavaScript reals are kept as scaled integers.                  *)
(*   importance  service: numerator over 3*W (W = number of words)         *)
(*               part004: thirtieths                                        *)
(*   strength    tenths                                                    *)
(*   coherence   record [kind, num, den]                                   *)
(***************************************************************************)
EXTENDS Integers, Sequences, FiniteSets, TLC

(***************************************************************************)
(* Bounds of the model.                                                    *)
(***************************************************************************)
MaxLines == 2
MaxConceptsBound == 2
PadWords == 120

(***************************************************************************)
(* Generic sequence helpers (Array.prototype.map / filter / sort / some).  *)
(***************************************************************************)
Range(s) == {s[i] : i \in 1..Len(s)}

Min(a, b) == IF a <= b THEN a ELSE b

Max(a, b) == IF a >= b THEN a ELSE b

\* Array.prototype.sort with a consistent comparator: a stable sort.
\* Before(a, b) is "compare(a, b) < 0".
StableSort(s, Before(_, _)) ==
  LET n == Len(s)
      rank(i) == Cardinality({j \in 1..n :
                    \/ Before(s[j], s[i])
                    \/ (~Before(s[i], s[j]) /\ j < i)}) + 1
  IN  [k \in 1..n |-> s[CHOOSE i \in 1..n : rank(i) = k]]

\* Array.prototype.slice(0, n) for n >= 0.
Slice0(s, n) == SubSeq(s, 1, Min(n, Len(s)))

RECURSIVE Flatten(_)
Flatten(ss) == IF ss = << >> THEN << >> ELSE Head(ss) \o Flatten(Tail(ss))

RECURSIVE SumSeq(_)
SumSeq(s) == IF s = << >> THEN 0 ELSE Head(s) + SumSeq(Tail(s))

\* Sequences over S of length 0..n.
SeqsUpTo(S, n) == UNION {[1..k -> S] : k \in 0..n}

(***************************************************************************)
(* Strings.  A token or name part is a TLA+ string; Chars gives its        *)
(* characters, and every string operation of the source (length, includes, *)
(* startsWith, toLowerCase, replace of a character class) is computed on   *)
(* the characters.                                                         *)
(***************************************************************************)
Chars(s) ==
  CASE s = "#"      -> <<"#">>
    [] s = "-"      -> <<"-">>
    [] s = "de"     -> <<"d", "e">>
    [] s = "Mapas"  -> <<"M", "a", "p", "a", "s">>
    [] s = "mapas"  -> <<"m", "a", "p", "a", "s">>
    [] s = "Mapas." -> <<"M", "a", "p", "a", "s", ".">>
    [] s = "mapas." -> <<"m", "a", "p", "a", "s", ".">>
    [] s = "Agua."  -> <<"A", "g", "u", "a", ".">>
    [] s = "agua."  -> <<"a", "g", "u", "a", ".">>
    [] s = "ideas." -> <<"i", "d", "e", "a", "s", ".">>
    [] s = "ideas"  -> <<"i", "d", "e", "a", "s">>
    [] s = "ideal." -> <<"i", "d", "e", "a", "l", ".">>
    [] s = "ideal"  -> <<"i", "d", "e", "a", "l">>
    [] s = "Agua"   -> <<"A", "g", "u", "a">>
    [] s = "agua"   -> <<"a", "g", "u", "a">>
    [] s = "mapa"   -> <<"m", "a", "p", "a">>
    [] s = "concepto"     -> <<"c", "o", "n", "c", "e", "p", "t", "o">>
    [] s = "conceptual"   -> <<"c", "o", "n", "c", "e", "p", "t", "u", "a", "l">>
    [] s = "artificial"   -> <<"a", "r", "t", "i", "f", "i", "c", "i", "a", "l">>
    [] s = "aprendizaje"  -> <<"a", "p", "r", "e", "n", "d", "i", "z", "a", "j", "e">>
    [] s = "inteligencia" -> <<"i", "n", "t", "e", "l", "i", "g", "e", "n", "c", "i", "a">>
    [] s = "tecnología"   -> <<"t", "e", "c", "n", "o", "l", "o", "g", "í", "a">>
    [] s = "educación"    -> <<"e", "d", "u", "c", "a", "c", "i", "ó", "n">>
    [] s = "ciencia"      -> <<"c", "i", "e", "n", "c", "i", "a">>
    [] s = "sistema"      -> <<"s", "i", "s", "t", "e", "m", "a">>
    [] s = "modelo"       -> <<"m", "o", "d", "e", "l", "o">>
    [] s = ""       -> << >>

Strings == {"#", "-", "de", "Mapas", "mapas", "Mapas.", "mapas.",
            "Agua.", "agua.", "ideas.", "ideas", "ideal.",
            "ideal", "Agua", "agua", "", "mapa", "concepto", "conceptual",
            "artificial", "aprendizaje", "inteligencia", "tecnología",
            "educación", "ciencia", "sistema", "modelo"}

\* The string with the given characters.
Str(cs) == CHOOSE s \in Strings : Chars(s) = cs

LowerChar(c) == CASE c = "M" -> "m" [] c = "A" -> "a" [] OTHER -> c

IsUpperChar(c) == c \in {"M", "A"}

IsLowerChar(c) ==
  c \in {"a", "c", "d", "e", "f", "g", "i", "j", "l", "m", "n", "o", "p", "r",
         "s", "t", "u", "z"}

\* \w plus the accented letters: what extractMainConcepts keeps in a word.
IsWordChar(c) == IsUpperChar(c) \/ IsLowerChar(c)

\* [.,;:!?()\[\]{}'"] : what part_004 strips from a word.
IsPunctChar(c) == c \in {"."}

LowerChars(cs) == [i \in 1..Len(cs) |-> LowerChar(cs[i])]

\* String.prototype.toLowerCase
toLowerCase(s) == Str(LowerChars(Chars(s)))

\* String.prototype.includes on character sequences.
IncludesChars(hay, needle) ==
  \E i \in 0..(Len(hay) - Len(needle)) :
     \A k \in 1..Len(needle) : hay[i + k] = needle[k]

\* String.prototype.startsWith on character sequences.
StartsWithChars(cs, prefix) ==
  /\ Len(prefix) <= Len(cs)
  /\ \A k \in 1..Len(prefix) : cs[k] = prefix[k]

\* String.prototype.indexOf on character sequences (0-based, -1 if absent).
IndexOfChars(hay, needle) ==
  LET hits == {i \in 0..(Len(hay) - Len(needle)) :
                 \A k \in 1..Len(needle) : hay[i + k] = needle[k]}
  IN  IF hits = {} THEN -1 ELSE CHOOSE i \in hits : \A j \in hits : i <= j

\* Tokens joined by single blanks.
RECURSIVE JoinChars(_)
JoinChars(toks) ==
  IF toks = << >> THEN << >>
  ELSE IF Len(toks) = 1 THEN Chars(toks[1])
  ELSE Chars(Head(toks)) \o <<" ">> \o JoinChars(Tail(toks))

(***************************************************************************)
(* The input text.  A text is a sequence of lines, a line a sequence of    *)
(* tokens separated by single blanks, followed by `fill' further tokens    *)
(* "de" (long texts are kept short this way: a fill token is a word of     *)
(* two letters, which every extractor ignores but counts).  A line with no *)
(* token at all is a line of blanks.  A non-string argument is the number  *)
(* 42.                                                                     *)
(***************************************************************************)
Line(toks, fill) == [toks |-> toks, fill |-> fill]

H1 == Line(<<"#", "Mapas.">>, 0)

H2 == Line(<<"#", "Agua", "ideal.">>, 0)

PP == Line(<<"Mapas", "ideas.", "Mapas", "ideas.">>, 0)

LI == Line(<<"-", "Agua.">>, 0)

PAD == Line(<< >>, PadWords)

BlankLine == Line(<< >>, 0)

LineSet == {H1, H2, PP, LI, PAD}

StringText(lines) == [kind |-> "string", lines |-> lines]

NumberText == [kind |-> "number", lines |-> << >>]

Texts == {StringText(ls) : ls \in SeqsUpTo(LineSet, MaxLines)}
           \cup {StringText(<<BlankLine>>), NumberText}

\* typeof text === 'string'
IsString(text) == text.kind = "string"

\* !text : the empty string is falsy, 42 and any other string are truthy.
IsFalsy(text) == IsString(text) /\ text.lines = << >>

\* text.trim() === ''
IsBlank(text) ==
  IsString(text) /\ \A i \in 1..Len(text.lines) : text.lines[i] = BlankLine

\* The tokens of a line, fill tokens included.
LineTokens(line) == line.toks \o [i \in 1..line.fill |-> "de"]

\* The explicit tokens of the text in order (text.split(/\s+/) without the
\* fill tokens).
AllToks(text) == Flatten([i \in 1..Len(text.lines) |-> text.lines[i].toks])

\* text.split(/\s+/).length : "" splits into [""], a blank text into ["", ""].
WordCount(text) ==
  IF text.lines = << >> THEN 1
  ELSE IF IsBlank(text) THEN 2
  ELSE SumSeq([i \in 1..Len(text.lines) |->
                 Len(text.lines[i].toks) + text.lines[i].fill])

\* The characters of a line and of the text (lines joined by "\n").
LineChars(line) ==
  LET fillChars(n) == [i \in 1..n |-> IF i % 3 = 1 THEN "d"
                                       ELSE IF i % 3 = 2 THEN "e" ELSE " "]
      blankFill(n) == [i \in 1..n |-> IF i % 3 = 1 THEN " "
                                        ELSE IF i % 3 = 2 THEN "d" ELSE "e"]
  IN  IF line.toks = << >>
      THEN (IF line.fill = 0 THEN << >> ELSE fillChars(3 * line.fill - 1))
      ELSE JoinChars(line.toks) \o blankFill(3 * line.fill)

RECURSIVE JoinLines(_)
JoinLines(lines) ==
  IF lines = << >> THEN << >>
  ELSE IF Len(lines) = 1 THEN LineChars(lines[1])
  ELSE LineChars(Head(lines)) \o <<"\n">> \o JoinLines(Tail(lines))

TextChars(text) ==
  IF IsBlank(text) /\ text.lines # << >> THEN <<" ", " ", " ">>
  ELSE JoinLines(text.lines)

EndsSentence(tok) ==
  Chars(tok) # << >> /\ Chars(tok)[Len(Chars(tok))] \in {".", "!", "?"}

\* text.split(/[.!?]+/).filter(s => s.trim().length > 0), each sentence as
\* the sequence of its explicit tokens: a line break does not end a sentence.
RECURSIVE SplitSentences(_, _)
SplitSentences(toks, cur) ==
  IF toks = << >>
  THEN IF cur = << >> THEN << >> ELSE <<cur>>
  ELSE IF EndsSentence(Head(toks))
       THEN <<Append(cur, Head(toks))>> \o SplitSentences(Tail(toks), << >>)
       ELSE SplitSentences(Tail(toks), Append(cur, Head(toks)))

Sentences(text) == SplitSentences(AllToks(text), << >>)

\* sentence.toLowerCase().includes(name.toLowerCase()) for a name without
\* blanks: the match lies inside one token.
SentenceIncludes(sentence, nameChars) ==
  \E i \in 1..Len(sentence) :
     IncludesChars(LowerChars(Chars(sentence[i])), LowerChars(nameChars))

(***************************************************************************)
(* Concepts and relationships.  A field the JavaScript object does not     *)
(* have is `undefined': "undefined" for strings, <<"undefined">> for       *)
(* arrays, -1 for numbers, FALSE for flags.                                *)
(***************************************************************************)
Undef == "undefined"

UndefSeq == <<"undefined">>

NewConcept(id, name, originalForm, importance, frequency, level,
           firstOccurrence, isCritical, isMainConcept, examples) ==
  [id |-> id, name |-> name, originalForm |-> originalForm,
   importance |-> importance, frequency |-> frequency, level |-> level,
   firstOccurrence |-> firstOccurrence, isCritical |-> isCritical,
   isMainConcept |-> isMainConcept,
   definition |-> Undef, examples |-> examples, relatedTerms |-> UndefSeq,
   category |-> Undef, subcategory |-> Undef, attributes |-> UndefSeq,
   formatting |-> Undef]

\* c => c.examples && c.examples.length > 0
HasExamples(c) == c.examples # UndefSeq /\ c.examples # << >>

\* c => c.definition
HasDefinition(c) == c.definition # Undef /\ c.definition # ""

Ids(concepts) == {concepts[i].id : i \in 1..Len(concepts)}

(***************************************************************************)
(* Step 1 of the service: extractMainConcepts, sortConceptsByRelevance.    *)
(***************************************************************************)
\* word.toLowerCase().replace(/[^a-zá...\w]/g, '')
cleanWord(tok) == Str(SelectSeq(LowerChars(Chars(tok)), IsWordChar))

commonWords == {"para", "como", "esto", "este", "esta", "estos", "estas",
                "pero", "porque"}

\* words.forEach(word => cleanWord ...) : the cleaned explicit tokens (a
\* fill token is too short to be counted).
cleanWords(text) == [i \in 1..Len(AllToks(text)) |-> cleanWord(AllToks(text)[i])]

\* Keys of wordFrequency in insertion order.
RECURSIVE FrequencyKeys(_, _)
FrequencyKeys(words, keys) ==
  IF words = << >> THEN keys
  ELSE FrequencyKeys(Tail(words),
         IF Len(Chars(Head(words))) > 3 /\ Head(words) \notin Range(keys)
         THEN Append(keys, Head(words)) ELSE keys)

\* The table wordFrequency: cleaned word -> number of occurrences.
wordFrequency(text) ==
  LET words == cleanWords(text)
  IN  [w \in Range(FrequencyKeys(words, << >>)) |->
         Cardinality({i \in 1..Len(words) : words[i] = w})]

sortedWords(text) ==
  LET frequency == wordFrequency(text)
      keys == SelectSeq(FrequencyKeys(cleanWords(text), << >>),
                        LAMBDA w : w \notin commonWords)
  IN  StableSort(keys, LAMBDA a, b : frequency[a] > frequency[b])

\* The service's importance of a word with the given frequency at `index'
\* (0-based) in a text of W words, times 3*W:
\* min(frequency / words.length * 100 + (15 - index) / 3, 6).
ImportanceOf(frequency, index, W) ==
  Min(300 * frequency + (15 - index) * W, 18 * W)

\* text.match(new RegExp(`\\b${word}\\w*\\b`, 'i')) : the first run of word
\* characters that starts with the word (every token holds one such run).
findOriginalForm(word, text) ==
  LET toks == AllToks(text)
      hit(i) == StartsWithChars(LowerChars(SelectSeq(Chars(toks[i]), IsWordChar)),
                                LowerChars(Chars(word)))
      hits == {i \in 1..Len(toks) : hit(i)}
  IN  IF hits = {} THEN word
      ELSE Str(SelectSeq(Chars(toks[CHOOSE i \in hits : \A j \in hits : i <= j]),
                         IsWordChar))

extractMainConcepts(text) ==
  LET ws == Slice0(sortedWords(text), 15)
      frequency == wordFrequency(text)
      W == WordCount(text)
      lower == LowerChars(TextChars(text))
  IN  [k \in 1..Len(ws) |->
        LET index == k - 1
        IN  NewConcept(index, <<ws[k]>>, <<findOriginalForm(ws[k], text)>>,
                       ImportanceOf(frequency[ws[k]], index, W),
                       frequency[ws[k]],
                       IF index < 3 THEN 0 ELSE IF index < 8 THEN 1 ELSE 2,
                       IndexOfChars(lower, Chars(ws[k])),
                       index < 5, FALSE, UndefSeq)]

\* Level ascending, and inside a level importance descending.
sortConceptsByRelevance(concepts) ==
  StableSort(concepts,
             LAMBDA a, b : \/ a.level < b.level
                           \/ (a.level = b.level /\ a.importance > b.importance))

\* buildConceptChildren of the service: the concepts one level below the
\* parent that occur after it in the text, the first 4 of them, each with
\* its own children when its level is below 2.  A node of the tree holds
\* the id and the level of its concept and the nodes of its children.
RECURSIVE buildConceptChildren(_, _)
buildConceptChildren(parent, allConcepts) ==
  LET children == SelectSeq(allConcepts, LAMBDA concept :
                    /\ concept.level = parent.level + 1
                    /\ concept.firstOccurrence > parent.firstOccurrence)
      limitedChildren == Slice0(children, 4)
  IN  [i \in 1..Len(limitedChildren) |->
        [id |-> limitedChildren[i].id,
         level |-> limitedChildren[i].level,
         children |-> IF limitedChildren[i].level < 2
                      THEN buildConceptChildren(limitedChildren[i], allConcepts)
                      ELSE << >>]]

\* createHierarchicalStructure of the service: hierarchyTree.root, a node
\* for every concept of level 0.
createHierarchicalStructure(concepts) ==
  LET rootConcepts == SelectSeq(concepts, LAMBDA concept : concept.level = 0)
  IN  [i \in 1..Len(rootConcepts) |->
        [id |-> rootConcepts[i].id,
         level |-> rootConcepts[i].level,
         children |-> buildConceptChildren(rootConcepts[i], concepts)]]

(***************************************************************************)
(* Step 2 of the service: identifyConceptRelationships,                    *)
(* classifyRelationshipTypes, assignRelationshipStrength.                  *)
(***************************************************************************)
NewRelationship(id, source, target, type, label, strength, sharedSentences) ==
  [id |-> id, source |-> source, target |-> target, type |-> type,
   label |-> label, semanticCategory |-> Undef, strength |-> strength,
   sharedSentences |-> sharedSentences, visualWeight |-> -1,
   lineStyle |-> Undef]

\* sentences.filter(s => s.toLowerCase().includes(name.toLowerCase())) :
\* the positions of the sentences that include the name of the concept.
relevantSentences(sentences, concept) ==
  {k \in 1..Len(sentences) : SentenceIncludes(sentences[k], JoinChars(concept.name))}

\* identifyConceptRelationships without the test i !== j.
identifyConceptRelationships_withSelf(text, concepts) ==
  LET sentences == Sentences(text)
      relevant == [i \in 1..Len(concepts) |-> relevantSentences(sentences, concepts[i])]
      shared(i, j) == Cardinality(relevant[i] \cap relevant[j])
  IN  Flatten([i \in 1..Len(concepts) |->
        LET js == SelectSeq([j \in 1..Len(concepts) |-> j], LAMBDA j : shared(i, j) > 0)
        IN  [n \in 1..Len(js) |->
              NewRelationship(<<concepts[i].id, concepts[js[n]].id>>,
                              concepts[i].id, concepts[js[n]].id,
                              "relacionado con", Undef,
                              10 * Min(shared(i, js[n]) + 1, 5),
                              shared(i, js[n]))]])

identifyConceptRelationships(text, concepts) ==
  LET sentences == Sentences(text)
      relevant == [i \in 1..Len(concepts) |-> relevantSentences(sentences, concepts[i])]
      shared(i, j) == Cardinality(relevant[i] \cap relevant[j])
  IN  Flatten([i \in 1..Len(concepts) |->
        LET js == SelectSeq([j \in 1..Len(concepts) |-> j], LAMBDA j :
                    concepts[i].id # concepts[j].id /\ shared(i, j) > 0)
        IN  [n \in 1..Len(js) |->
              NewRelationship(<<concepts[i].id, concepts[js[n]].id>>,
                              concepts[i].id, concepts[js[n]].id,
                              "relacionado con", Undef,
                              10 * Min(shared(i, js[n]) + 1, 5),
                              shared(i, js[n]))]])

\* relationTypes: name and indicator, indexed from 0 as in the source.
relationTypes ==
  <<[name |-> "es parte de",      indicator |-> "pertenencia"],
    [name |-> "causa",            indicator |-> "causalidad"],
    [name |-> "es un tipo de",    indicator |-> "clasificación"],
    [name |-> "contiene",         indicator |-> "composición"],
    [name |-> "influye en",       indicator |-> "influencia"],
    [name |-> "se relaciona con", indicator |-> "asociación"],
    [name |-> "precede a",        indicator |-> "secuencia"],
    [name |-> "requiere",         indicator |-> "dependencia"],
    [name |-> "se opone a",       indicator |-> "contraste"]>>

\* Math.floor(Math.random() * 3)
RandomDraws == 0..2

\* The index into relationTypes for a strength (tenths) and a random draw.
typeIndex(strength, draw) ==
  IF strength >= 40 THEN draw
  ELSE IF strength >= 20 THEN 4 + draw
  ELSE 5

\* draws[i] is the random draw made for relationship i.
classifyRelationshipTypes(relationships, draws) ==
  [i \in 1..Len(relationships) |->
     LET t == relationTypes[typeIndex(relationships[i].strength, draws[i]) + 1]
     IN  [relationships[i] EXCEPT !.type = t.name,
                                  !.semanticCategory = t.indicator]]

\* typeWeights[type] || 1.0, in tenths.
typeWeights(type) ==
  CASE type = "causa"            -> 15
    [] type = "es un tipo de"    -> 13
    [] type = "es parte de"      -> 13
    [] type = "contiene"         -> 12
    [] type = "requiere"         -> 12
    [] type = "precede a"        -> 11
    [] type = "influye en"       -> 10
    [] type = "se opone a"       -> 10
    [] type = "se relaciona con" -> 8
    [] OTHER                     -> 10

\* Math.ceil of a number of tenths, in tenths.
CeilTenths(x) == 10 * ((x + 9) \div 10)

\* strength * weight is in hundredths of the unit; the clamp keeps it in
\* [1, 5].  The strength stays in tenths: every product of the table is a
\* whole number of tenths.
assignRelationshipStrength(relationships) ==
  [i \in 1..Len(relationships) |->
     LET rel == relationships[i]
         adjustedStrength ==
           Min(Max((rel.strength * typeWeights(rel.type)) \div 10, 10), 50)
     IN  [rel EXCEPT !.strength = adjustedStrength,
                     !.visualWeight = CeilTenths(adjustedStrength)]]

\* createKnowledgeGraph: the node ids and the (source, target) pairs.
createKnowledgeGraph(concepts, relationships) ==
  [defined |-> TRUE,
   nodes |-> [i \in 1..Len(concepts) |-> concepts[i].id],
   edges |-> [i \in 1..Len(relationships) |->
                <<relationships[i].source, relationships[i].target>>]]

NoKnowledgeGraph == [defined |-> FALSE, nodes |-> << >>, edges |-> << >>]

(***************************************************************************)
(* Step 3 of the service: step3_EnrichSemantically.                        *)
(***************************************************************************)
\* definitions[(level + Math.floor(importance)) % 4]; scale is 3*W.
generateConciseDefinition(concept, scale) ==
  LET index == (concept.level + concept.importance \div scale) % 4
  IN  CASE index = 0 -> "Término que hace referencia a"
        [] index = 1 -> "Concepto clave relacionado"
        [] index = 2 -> "Elemento fundamental que representa"
        [] index = 3 -> "Componente que define aspectos esenciales"

findRelevantExamples(concept) ==
  Slice0(<<"Ejemplo aplicado", "Caso práctico", "Instancia específica">>,
         Min(3, Max(1, 3 - concept.level)))

identifyRelatedTerms(concept) == <<"Término relacionado", "Sinónimo contextual">>

\* categories[concept.level] || categories[0]
classifyConcept(concept) ==
  CASE concept.level = 0 -> "Concepto principal"
    [] concept.level = 1 -> "Concepto secundario"
    [] concept.level = 2 -> "Concepto terciario"
    [] concept.level = 3 -> "Detalle"
    [] concept.level = 4 -> "Ejemplo"
    [] OTHER             -> "Concepto principal"

step3_EnrichSemantically(concepts, scale) ==
  [i \in 1..Len(concepts) |->
     LET c == concepts[i]
     IN  [c EXCEPT
            !.definition = IF HasDefinition(c) THEN c.definition
                           ELSE generateConciseDefinition(c, scale),
            !.examples = IF c.examples # UndefSeq THEN c.examples
                         ELSE findRelevantExamples(c),
            !.relatedTerms = IF c.relatedTerms # UndefSeq THEN c.relatedTerms
                             ELSE identifyRelatedTerms(c),
            !.category = IF c.category # Undef THEN c.category
                         ELSE classifyConcept(c)]]

(***************************************************************************)
(* Step 4 of the service: filterIrrelevantConcepts, removeRedundantConcepts,*)
(* validateRelationshipCoherence, calculateCoherenceScore.                 *)
(***************************************************************************)
\* importance > 1.5 || frequency > 1 || isCritical; scale is 3*W.
filterIrrelevantConcepts(concepts, scale) ==
  SelectSeq(concepts, LAMBDA c :
    \/ 2 * c.importance > 3 * scale
    \/ c.frequency > 1
    \/ c.isCritical)

\* The loop of removeRedundantConcepts over concepts[from..], with the names
\* seen and the concepts kept so far.
RECURSIVE RemoveRedundantFrom(_, _, _)
RemoveRedundantFrom(rest, seenNames, uniqueConcepts) ==
  IF rest = << >> THEN uniqueConcepts
  ELSE LET concept == Head(rest)
           normalizedName == LowerChars(JoinChars(concept.name))
           isDuplicate ==
             /\ Len(normalizedName) > 4
             /\ \E name \in seenNames :
                  /\ StartsWithChars(name, SubSeq(normalizedName, 1, 4))
                  /\ name # normalizedName
       IN  IF normalizedName \in seenNames \/ isDuplicate
           THEN RemoveRedundantFrom(Tail(rest), seenNames, uniqueConcepts)
           ELSE RemoveRedundantFrom(Tail(rest), seenNames \cup {normalizedName},
                                    Append(uniqueConcepts, concept))

removeRedundantConcepts(concepts) == RemoveRedundantFrom(concepts, {}, << >>)

\* concepts.find(c => c.id === id)?.level || 0
LevelOf(concepts, id) ==
  IF \E i \in 1..Len(concepts) : concepts[i].id = id
  THEN concepts[CHOOSE i \in 1..Len(concepts) :
                  /\ concepts[i].id = id
                  /\ \A j \in 1..(i - 1) : concepts[j].id # id].level
  ELSE 0

validateRelationshipCoherence(relationships, concepts) ==
  LET validConceptIds == Ids(concepts)
      validRelationships == SelectSeq(relationships, LAMBDA rel :
        rel.source \in validConceptIds /\ rel.target \in validConceptIds)
  IN  SelectSeq(validRelationships, LAMBDA rel :
        ~(/\ rel.type = "es parte de"
          /\ LevelOf(concepts, rel.source) <= LevelOf(concepts, rel.target)))

\* A JavaScript number: a fraction num/den with den > 0, NaN or Infinity.
Num(num, den) == [kind |-> "num", num |-> num, den |-> den]

NaN == [kind |-> "NaN", num |-> 0, den |-> 1]

Infinity == [kind |-> "Infinity", num |-> 0, den |-> 1]

NoNumber == [kind |-> "undefined", num |-> 0, den |-> 1]

Endpoints(relationships) ==
  {relationships[i].source : i \in 1..Len(relationships)}
    \cup {relationships[i].target : i \in 1..Len(relationships)}

\* connectivity * 0.4 + density * 0.3 + significance * 0.3 with
\*   connectivity = |connected ids| / n
\*   density      = R / (n * (n - 1) / 2)
\*   significance = |strength > 3| / max(1, R)
calculateCoherenceScore(concepts, relationships) ==
  LET n == Len(concepts)
      R == Len(relationships)
      k == Cardinality(Endpoints(relationships))
      strong == Cardinality({i \in 1..R : relationships[i].strength > 30})
      mR == Max(1, R)
  IN  IF n = 0 THEN (IF k = 0 THEN NaN ELSE Infinity)
      ELSE IF n = 1 THEN (IF R = 0 THEN NaN ELSE Infinity)
      ELSE Num(4 * k * (n - 1) * mR + 6 * R * mR + 3 * strong * n * (n - 1),
               10 * n * (n - 1) * mR)

\* parseFloat(x.toFixed(2)) : rounded to hundredths.
RoundHundredths(x) ==
  IF x.kind # "num" THEN x
  ELSE Num((200 * x.num + x.den) \div (2 * x.den), 100)

\* x < 0.5 ; a comparison with NaN is false.
BelowHalf(x) == x.kind = "num" /\ 2 * x.num < x.den

(***************************************************************************)
(* Step 5 of the service: step5_OptimizeVisualPresentation.                *)
(***************************************************************************)
\* The formatting the service gives a concept; scale is 3*W.
formattingOf(concept, scale) ==
  LET bold == \/ concept.level = 0
              \/ concept.importance > 4 * scale
              \/ concept.isCritical
      underline == concept.level = 1 /\ concept.importance > 3 * scale
  IN  IF bold /\ underline THEN "bold underline"
      ELSE IF bold THEN "bold"
      ELSE IF underline THEN "underline"
      ELSE "plain"

\* concepts.find(c => c.id === id)?.importance || 1, times scale.
ImportanceOrOne(concepts, id, scale) ==
  LET hits == {i \in 1..Len(concepts) : concepts[i].id = id}
      imp == concepts[CHOOSE i \in hits : \A j \in hits : i <= j].importance
  IN  IF hits = {} \/ imp = 0 THEN scale ELSE imp

\* Math.max(1, Math.min(3, Math.round((avgImportance + strength) / 2))),
\* in tenths.  strength || 1.
visualWeightOf(rel, concepts, scale) ==
  LET s10 == IF rel.strength = 0 THEN 10 ELSE rel.strength
      \* (avg + strength) / 2 = num / den
      num == 10 * (ImportanceOrOne(concepts, rel.source, scale)
                   + ImportanceOrOne(concepts, rel.target, scale))
             + 2 * scale * s10
      den == 40 * scale
      rounded == (2 * num + den) \div (2 * den)
  IN  10 * Max(1, Min(3, rounded))

lineStyleOf(visualWeight) ==
  IF visualWeight = 30 THEN "strong"
  ELSE IF visualWeight = 20 THEN "medium" ELSE "light"

formatConcepts(concepts, scale) ==
  [i \in 1..Len(concepts) |->
     [concepts[i] EXCEPT !.formatting = formattingOf(concepts[i], scale)]]

formatRelationships(relationships, concepts, scale) ==
  [i \in 1..Len(relationships) |->
     LET w == visualWeightOf(relationships[i], concepts, scale)
     IN  [relationships[i] EXCEPT !.visualWeight = w,
                                  !.lineStyle = lineStyleOf(w)]]

\* assignRelevantEmojis: the emoji of one concept.
emojiOf(concept) ==
  IF concept.isCritical THEN "star"
  ELSE IF concept.level = 1 THEN "magnifier"
  ELSE IF concept.level = 2 THEN "clipboard"
  ELSE "bulb"

(***************************************************************************)
(* The limitation of concepts at the end of processText (both variants).   *)
(***************************************************************************)
\* The guard of the limitation: result.concepts.length > config.maxConcepts.
\* The test with >= in place of >.
limitApplies_atLeast(concepts, maxConcepts) == Len(concepts) >= maxConcepts

limitApplies(concepts, maxConcepts) == Len(concepts) > maxConcepts

\* The sort with a.importance - b.importance.
limitConcepts_ascending(concepts, maxConcepts) ==
  Slice0(StableSort(concepts, LAMBDA a, b : a.importance < b.importance),
         maxConcepts)

\* concepts.sort((a, b) => b.importance - a.importance).slice(0, maxConcepts)
limitConcepts(concepts, maxConcepts) ==
  Slice0(StableSort(concepts, LAMBDA a, b : a.importance > b.importance),
         maxConcepts)

\* The limitation without the filter of the relationships.
limitRelationships_unfiltered(relationships, concepts) == relationships

\* relationships.filter(r => conceptIds.has(r.source) && conceptIds.has(r.target))
limitRelationships(relationships, concepts) ==
  SelectSeq(relationships, LAMBDA r :
    r.source \in Ids(concepts) /\ r.target \in Ids(concepts))

NoLimitation == [applied |-> FALSE, conceptsRemoved |-> 0, relationshipsRemoved |-> 0]

(***************************************************************************)
(* generateEducationalConceptMap of the service: the Markdown document as  *)
(* the sequence of its blocks.                                             *)
(***************************************************************************)
Block(tag, id, s, e) ==
  [tag |-> tag, id |-> id, s |-> s, e |-> e, name |-> << >>, nums |-> << >>]

AtLevel(concepts, level) == SelectSeq(concepts, LAMBDA c : c.level = level)

IsBold(c) == c.formatting \in {"bold", "bold underline"}

IsUnderline(c) == c.formatting \in {"underline", "bold underline"}

\* relations.find(rel => rel.target === id).type
RelationTypeTo(relations, id) ==
  relations[CHOOSE i \in 1..Len(relations) :
              /\ relations[i].target = id
              /\ \A j \in 1..(i - 1) : relations[j].target # id].type

DetailBlocks(result, subConcept) ==
  LET subRelations == SelectSeq(result.relationships,
                                LAMBDA rel : rel.source = subConcept.id)
      relatedDetails == SelectSeq(AtLevel(result.concepts, 2), LAMBDA d :
                          \E i \in 1..Len(subRelations) : subRelations[i].target = d.id)
  IN  IF relatedDetails = << >> THEN << >>
      ELSE <<Block("details", subConcept.id, "", "")>> \o
           [i \in 1..Len(relatedDetails) |->
              Block("detail", relatedDetails[i].id,
                    RelationTypeTo(subRelations, relatedDetails[i].id),
                    IF IsBold(relatedDetails[i]) THEN "bold" ELSE "plain")]

SubConceptBlocks(result, mainConcept, relations, subConcept, emojis) ==
  <<Block("h3", subConcept.id,
          IF subConcept.formatting = Undef THEN "plain" ELSE subConcept.formatting,
          IF emojis THEN emojiOf(subConcept) ELSE "")>>
  \o <<Block("relation", mainConcept.id, RelationTypeTo(relations, subConcept.id), "")>>
  \o (IF HasDefinition(subConcept)
      THEN <<Block("definition", subConcept.id, subConcept.definition, "")>>
      ELSE << >>)
  \o (IF HasExamples(subConcept)
      THEN <<Block("examples", subConcept.id, "", "")>> \o
           [i \in 1..Len(subConcept.examples) |->
              Block("example", subConcept.id, subConcept.examples[i], "")]
      ELSE << >>)
  \o DetailBlocks(result, subConcept)
  \o (IF subConcept.relatedTerms # UndefSeq /\ subConcept.relatedTerms # << >>
      THEN <<Block("relatedTerms", subConcept.id, "", "")>>
      ELSE << >>)

MainConceptBlocks(result, mainConcept, emojis) ==
  LET relations == SelectSeq(result.relationships,
                             LAMBDA rel : rel.source = mainConcept.id)
      relatedSubconcepts == SelectSeq(AtLevel(result.concepts, 1), LAMBDA sub :
                              \E i \in 1..Len(relations) : relations[i].target = sub.id)
  IN  <<Block("h2", mainConcept.id,
              IF IsBold(mainConcept) THEN "bold" ELSE "plain",
              IF emojis THEN emojiOf(mainConcept) ELSE "")>>
      \o (IF HasDefinition(mainConcept)
          THEN <<Block("definition", mainConcept.id, mainConcept.definition, "")>>
          ELSE << >>)
      \o Flatten([i \in 1..Len(relatedSubconcepts) |->
                    SubConceptBlocks(result, mainConcept, relations,
                                     relatedSubconcepts[i], emojis)])

\* result: [concepts, relationships]; emojis: result.conceptEmojis is set.
generateEducationalConceptMap(result, emojis) ==
  LET mains == AtLevel(result.concepts, 0)
  IN  <<Block("title", -1, "# Mapa Conceptual", "")>>
      \o Flatten([i \in 1..Len(mains) |-> MainConceptBlocks(result, mains[i], emojis)])

(***************************************************************************)
(* Step 1 of part_004: extractMainConcepts, findOriginalForm,              *)
(* sortConceptsByRelevance.                                                *)
(***************************************************************************)
\* word.replace(/[.,;:!?()\[\]{}'"]/g, '')
stripPunctuation(tok) == Str(SelectSeq(Chars(tok), LAMBDA c : ~IsPunctChar(c)))

\* A line that titlePattern /^#+\s+(.+)$/ matches.
IsTitleLine(line) == Len(line.toks) >= 2 /\ line.toks[1] = "#"

\* A line that /^\s*[\*\-\+\d]\s+(.+)$/ matches.
IsListItem(line) == Len(line.toks) >= 2 /\ line.toks[1] \in {"*", "-", "+"}

\* paragraph.trim().length
TrimLength(line) == Len(LineChars(line))

\* firstParagraph.split(/[.!?]\s+/)[0] as tokens: up to the first token that
\* ends a sentence and is followed by another one, without that character.
firstSentence(toks) ==
  LET ends == {i \in 1..(Len(toks) - 1) : EndsSentence(toks[i])}
      e == CHOOSE i \in ends : \A j \in ends : i <= j
      last == Chars(toks[e])
  IN  IF ends = {} THEN toks
      ELSE Append(SubSeq(toks, 1, e - 1), Str(SubSeq(last, 1, Len(last) - 1)))

\* /^[A-ZÁÉÍÓÚ][a-záéíóú]+/.test(word)
IsCapitalized(word) ==
  /\ Len(Chars(word)) >= 2
  /\ IsUpperChar(Chars(word)[1])
  /\ IsLowerChar(Chars(word)[2])

mainNoun(sentence) ==
  LET nouns == SelectSeq(sentence, LAMBDA w : Len(Chars(w)) > 3 /\ IsCapitalized(w))
  IN  IF nouns # << >> THEN nouns[1] ELSE sentence[1]

\* text.match(new RegExp(`\\b${word}\\b`, 'i')) : the first token whose run
\* of word characters is the word, in the case the text has it in.
findOriginalForm_p4(word, text) ==
  LET toks == AllToks(text)
      run(i) == SelectSeq(Chars(toks[i]), IsWordChar)
      hits == {i \in 1..Len(toks) : LowerChars(run(i)) = LowerChars(Chars(word))}
  IN  IF hits = {} THEN word
      ELSE Str(run(CHOOSE i \in hits : \A j \in hits : i <= j))

\* concepts.find(c => c.name.toLowerCase() === word.toLowerCase())
ExistsNamed(concepts, word) ==
  \E i \in 1..Len(concepts) :
     LowerChars(JoinChars(concepts[i].name)) = LowerChars(Chars(word))

stopWords_p4 == {"para", "como", "este", "esta", "esto", "estos", "estas",
                 "porque", "aunque", "cuando", "donde"}

genericNames_p4 == {"es", "son", "estar", "estará", "estaba", "ser", "hay",
                    "tiene", "tienen"}

\* The potential concepts of one paragraph, sentence after sentence.  A
\* token of at most 3 characters is dropped before the punctuation is
\* stripped: stripping makes no token longer.
potentialConcepts(line) ==
  IF TrimLength(line) < 10 THEN << >>
  ELSE LET long == SelectSeq(LineTokens(line), LAMBDA t : Len(Chars(t)) > 3)
           words == [i \in 1..Len(long) |-> stripPunctuation(long[i])]
       IN  SelectSeq(words, LAMBDA w :
             Len(Chars(w)) > 3 /\ toLowerCase(w) \notin stopWords_p4)

\* Title concepts: ids 1.., the first at level 0, importance 1.0 - index*0.1
\* (thirtieths).
titleConcepts(lines) ==
  LET titles == SelectSeq(lines, IsTitleLine)
  IN  [k \in 1..Len(titles) |->
         NewConcept(k, Tail(titles[k].toks), Tail(titles[k].toks),
                    30 - 3 * (k - 1), -1, IF k = 1 THEN 0 ELSE 1, -1,
                    FALSE, k = 1, UndefSeq)]

\* Without titles: the main noun of the first sentence of the first paragraph.
firstParagraphConcept(lines) ==
  IF lines = << >> \/ LineTokens(lines[1]) = << >> THEN << >>
  ELSE LET noun == mainNoun(firstSentence(LineTokens(lines[1])))
       IN  <<NewConcept(1, <<noun>>, <<noun>>, 30, -1, 0, -1, FALSE, TRUE, UndefSeq)>>

RECURSIVE AddSecondary(_, _, _)
AddSecondary(words, concepts, text) ==
  IF words = << >> THEN concepts
  ELSE LET word == Head(words)
           level == IF \E i \in 1..Len(concepts) : concepts[i].isMainConcept
                    THEN 2 ELSE 1
       IN  AddSecondary(Tail(words),
             IF ExistsNamed(concepts, word) THEN concepts
             ELSE Append(concepts,
                    NewConcept(Len(concepts) + 1, <<word>>,
                               <<findOriginalForm_p4(word, text)>>, 15, -1,
                               level, -1, FALSE, FALSE, UndefSeq)),
             text)

RECURSIVE AddListItems(_, _, _)
AddListItems(lines, concepts, text) ==
  IF lines = << >> THEN concepts
  ELSE LET content == Tail(Head(lines).toks)
           firstWord == stripPunctuation(content[1])
           isNew == /\ IsListItem(Head(lines))
                    /\ Len(JoinChars(content)) > 3
                    /\ Len(Chars(firstWord)) > 3
                    /\ ~ExistsNamed(concepts, firstWord)
       IN  AddListItems(Tail(lines),
             IF isNew
             THEN Append(concepts,
                    NewConcept(Len(concepts) + 1, <<firstWord>>,
                               <<findOriginalForm_p4(firstWord, text)>>, 12, -1,
                               2, -1, FALSE, FALSE, <<Str(JoinChars(content))>>))
             ELSE concepts,
             text)

extractMainConcepts_p4(text) ==
  LET lines == text.lines
      top == IF \E i \in 1..Len(lines) : IsTitleLine(lines[i])
             THEN titleConcepts(lines)
             ELSE firstParagraphConcept(lines)
      words == Flatten([i \in 1..Len(lines) |-> potentialConcepts(lines[i])])
      concepts == AddListItems(lines, AddSecondary(words, top, text), text)
  IN  SelectSeq(concepts, LAMBDA c :
        Len(c.name) # 1 \/ toLowerCase(c.name[1]) \notin genericNames_p4)

\* Level ascending, and inside a level importance descending; every concept
\* of extractMainConcepts has both.
sortConceptsByRelevance_p4(concepts) ==
  StableSort(concepts,
             LAMBDA a, b : \/ a.level < b.level
                           \/ (a.level = b.level /\ a.importance > b.importance))

\* buildConceptChildren of part_004: the node of the parent, with a child
\* for every other concept one level below it, each built from the
\* concepts without that child.
RECURSIVE buildConceptChildren_p4(_, _)
buildConceptChildren_p4(parent, allConcepts) ==
  LET potentialChildren == SelectSeq(allConcepts, LAMBDA c :
                             c.level = parent.level + 1 /\ c.id # parent.id)
  IN  [id |-> parent.id,
       level |-> parent.level,
       children |-> [i \in 1..Len(potentialChildren) |->
          buildConceptChildren_p4(
            potentialChildren[i],
            SelectSeq(allConcepts, LAMBDA c : c.id # potentialChildren[i].id))]]

\* createHierarchicalStructure of part_004 with the copy of the last concept
\* as the root when no concept is of level 0 or main.
createHierarchicalStructure_p4_lastAsRoot(concepts) ==
  LET marked == SelectSeq(concepts, LAMBDA c : c.level = 0 \/ c.isMainConcept)
      rootConcepts == IF marked = << >> /\ concepts # << >>
                      THEN <<[concepts[Len(concepts)] EXCEPT !.level = 0,
                                                 !.isMainConcept = TRUE]>>
                      ELSE marked
  IN  [i \in 1..Len(rootConcepts) |->
        buildConceptChildren_p4(rootConcepts[i], concepts)]

\* createHierarchicalStructure of part_004: a tree for every concept of
\* level 0 and for every main concept; with none of them, a tree for a copy
\* of the first concept at level 0.
createHierarchicalStructure_p4(concepts) ==
  LET marked == SelectSeq(concepts, LAMBDA c : c.level = 0 \/ c.isMainConcept)
      rootConcepts == IF marked = << >> /\ concepts # << >>
                      THEN <<[concepts[1] EXCEPT !.level = 0,
                                                 !.isMainConcept = TRUE]>>
                      ELSE marked
  IN  [i \in 1..Len(rootConcepts) |->
        buildConceptChildren_p4(rootConcepts[i], concepts)]

(***************************************************************************)
(* Step 2 of part_004: detectConceptRelationships, classifyRelationshipTypes.*)
(***************************************************************************)
\* One 'hierarchical' edge of strength 0.8 for every ordered pair of
\* positions i # j with concepts[j].level = concepts[i].level + 1.
detectConceptRelationships(concepts) ==
  LET pairs == Flatten([i \in 1..Len(concepts) |->
                 LET js == SelectSeq([j \in 1..Len(concepts) |-> j], LAMBDA j :
                             i # j /\ concepts[j].level = concepts[i].level + 1)
                 IN  [k \in 1..Len(js) |-> <<i, js[k]>>]])
  IN  [n \in 1..Len(pairs) |->
         NewRelationship(<<n>>, concepts[pairs[n][1]].id, concepts[pairs[n][2]].id,
                         "hierarchical", "incluye", 8, -1)]

relationTypes_p4 ==
  <<[type |-> "hierarchical", labels |-> <<"contiene", "incluye", "abarca", "comprende">>],
    [type |-> "causal",       labels |-> <<"causa", "produce", "genera", "provoca">>],
    [type |-> "sequential",   labels |-> <<"precede a", "sigue a", "conduce a", "deriva en">>],
    [type |-> "descriptive",  labels |-> <<"describe", "caracteriza", "define">>],
    [type |-> "example",      labels |-> <<"ejemplifica", "ilustra", "muestra">>],
    [type |-> "comparative",  labels |-> <<"similar a", "diferente de", "contrasta con">>]>>

\* The pairs (type draw, label draw) classifyRelationshipTypes may make for a
\* relationship: none is made when it has a type and a label.
ClassifyDraws_p4(rel) ==
  IF rel.type # Undef /\ rel.label # Undef THEN {<<0, 0>>}
  ELSE IF rel.type # Undef
       THEN {<<0, l>> : l \in 0..3}
       ELSE {<<t, l>> : t \in 0..(Len(relationTypes_p4) - 1), l \in 0..3}

classifyOne_p4(rel, draw) ==
  IF rel.type # Undef
  THEN IF rel.label # Undef THEN rel
       ELSE LET hits == {k \in 1..Len(relationTypes_p4) :
                           relationTypes_p4[k].type = rel.type}
                labels == relationTypes_p4[CHOOSE k \in hits : TRUE].labels
            IN  IF hits = {} THEN rel
                ELSE [rel EXCEPT !.label = labels[Min(draw[2], Len(labels) - 1) + 1]]
  ELSE LET selectedType == relationTypes_p4[draw[1] + 1]
       IN  [rel EXCEPT !.type = selectedType.type,
                       !.label = IF rel.label # Undef THEN rel.label
                                 ELSE selectedType.labels[
                                        Min(draw[2], Len(selectedType.labels) - 1) + 1]]

classifyRelationshipTypes_p4(relationships, draws) ==
  [i \in 1..Len(relationships) |-> classifyOne_p4(relationships[i], draws[i])]

(***************************************************************************)
(* Step 3 of part_004: the enrichment of one concept.                      *)
(***************************************************************************)
NameIncludes(concept, keyword) ==
  IncludesChars(LowerChars(JoinChars(concept.name)), Chars(keyword))

definitionKeywords_p4 ==
  <<"tecnología", "inteligencia", "artificial", "educación", "aprendizaje",
    "conceptual", "mapa">>

generateConciseDefinition_p4(concept) ==
  LET hits == SelectSeq(definitionKeywords_p4, LAMBDA k : NameIncludes(concept, k))
  IN  IF hits # << >> THEN hits[1]
      ELSE IF concept.level = 0 THEN "Concepto principal que representa"
      ELSE IF concept.level = 1 THEN "Área o categoría importante dentro de"
      ELSE "Elemento específico relacionado con"

exampleKeywords_p4 == <<"tecnología", "educación", "inteligencia", "concepto", "mapa">>

\* Three predefined examples for each keyword in the name, after the
\* examples the concept already has; at most 3.
findRelevantExamples_p4(concept) ==
  LET hits == SelectSeq(exampleKeywords_p4, LAMBDA k : NameIncludes(concept, k))
      found == Flatten([i \in 1..Len(hits) |-> <<hits[i], hits[i], hits[i]>>])
  IN  Slice0((IF HasExamples(concept) THEN concept.examples ELSE << >>) \o found, 3)

relatedTermKeywords_p4 ==
  <<[keyword |-> "tecnología", terms |-> 4], [keyword |-> "inteligencia", terms |-> 4],
    [keyword |-> "artificial", terms |-> 3], [keyword |-> "educación", terms |-> 4],
    [keyword |-> "mapa", terms |-> 4], [keyword |-> "concepto", terms |-> 4]>>

\* The related terms of a concept, each written as its keyword (the one term
\* two lists share, "aprendizaje", is kept once by the Set).
identifyRelatedTerms_p4(concept) ==
  LET hits == SelectSeq(relatedTermKeywords_p4, LAMBDA r : NameIncludes(concept, r.keyword))
      all == Flatten([i \in 1..Len(hits) |-> [k \in 1..hits[i].terms |-> hits[i].keyword]])
      shared == \E i, j \in 1..Len(hits) :
                  hits[i].keyword = "inteligencia" /\ hits[j].keyword = "educación"
  IN  IF shared THEN Tail(all) ELSE all

categoriesByKeyword_p4 ==
  <<[keyword |-> "tecnología",   category |-> "Tecnología",
     subcategories |-> <<"Hardware", "Software", "Redes", "Innovación">>],
    [keyword |-> "educación",    category |-> "Educación",
     subcategories |-> <<"Metodologías", "Evaluación", "Recursos", "Instituciones">>],
    [keyword |-> "inteligencia", category |-> "Cognición",
     subcategories |-> <<"Procesos", "Capacidades", "Desarrollo">>],
    [keyword |-> "concepto",     category |-> "Epistemología",
     subcategories |-> <<"Teorías", "Modelos", "Paradigmas">>],
    [keyword |-> "mapa",         category |-> "Visualización",
     subcategories |-> <<"Diagramas", "Esquemas", "Representaciones">>]>>

defaultCategories_p4 ==
  <<[category |-> "Concepto Principal",  subcategory |-> "Fundamento"],
    [category |-> "Concepto Secundario", subcategory |-> "Componente"],
    [category |-> "Concepto Derivado",   subcategory |-> "Ejemplo"]>>

KeywordCategories(concept) ==
  SelectSeq(categoriesByKeyword_p4, LAMBDA k : NameIncludes(concept, k.keyword))

\* The values Math.floor(Math.random() * subcategories.length) can take for
\* the concept; no draw is made when no keyword matches.
SubcategoryDraws(concept) ==
  IF KeywordCategories(concept) = << >> THEN {0}
  ELSE 0..(Len(KeywordCategories(concept)[1].subcategories) - 1)

classifyConcept_p4(concept, draw) ==
  LET hits == KeywordCategories(concept)
  IN  IF hits # << >>
      THEN [category |-> hits[1].category,
            subcategory |-> hits[1].subcategories[draw + 1]]
      ELSE defaultCategories_p4[Min(concept.level, Len(defaultCategories_p4) - 1) + 1]

\* extractConceptAttributes: "Ejemplos" when the concept has examples,
\* "Características" when it has a definition.
extractConceptAttributes(concept) ==
  (IF HasExamples(concept) THEN <<"Ejemplos">> ELSE << >>)
  \o (IF HasDefinition(concept) THEN <<"Características">> ELSE << >>)

\* The body of the task of one concept in a batch.
enrichConcept_p4(concept, config, draw) ==
  LET c1 == IF config.includeDefinitions
            THEN [concept EXCEPT !.definition = generateConciseDefinition_p4(concept)]
            ELSE concept
      c2 == IF config.includeExamples
            THEN [c1 EXCEPT !.examples = findRelevantExamples_p4(c1)]
            ELSE c1
      c3 == [c2 EXCEPT !.relatedTerms = identifyRelatedTerms_p4(c2)]
      classification == classifyConcept_p4(c3, draw)
      c4 == [c3 EXCEPT !.category = classification.category,
                       !.subcategory = classification.subcategory,
                       !.importance =
                          IF c3.importance # 0 THEN c3.importance
                          ELSE (30 * (Len(c3.relatedTerms) + 1)) \div (c3.level + 1)]
  IN  [c4 EXCEPT !.attributes = extractConceptAttributes(c4)]

\* All batches one after the other, every task of a batch completed.
step3_EnrichSemantically_p4(concepts, config, draws) ==
  [i \in 1..Len(concepts) |-> enrichConcept_p4(concepts[i], config, draws[i])]

(***************************************************************************)
(* Step 4 of part_004: filterIrrelevantConcepts, removeRedundantConcepts,  *)
(* calculateStringSimilarity, validateRelationshipCoherence,               *)
(* calculateCoherenceScore.                                                *)
(***************************************************************************)
\* level 0, main, or importance >= 0.4 * average importance.
filterIrrelevantConcepts_p4(concepts) ==
  LET total == SumSeq([i \in 1..Len(concepts) |-> concepts[i].importance])
      count == Max(1, Len(concepts))
  IN  SelectSeq(concepts, LAMBDA c :
        \/ c.level = 0
        \/ c.isMainConcept
        \/ 10 * count * c.importance >= 4 * total)

\* str.split(/\s+/) of a string without leading or trailing blanks.
RECURSIVE SplitWords(_, _)
SplitWords(cs, cur) ==
  IF cs = << >> THEN <<cur>>
  ELSE IF Head(cs) = " " THEN <<cur>> \o SplitWords(Tail(cs), << >>)
  ELSE SplitWords(Tail(cs), Append(cur, Head(cs)))

calculateStringSimilarity(str1, str2) ==
  IF str1 = str2 THEN Num(1, 1)
  ELSE IF Len(str1) = 0 \/ Len(str2) = 0 THEN Num(0, 1)
  ELSE IF IncludesChars(str1, str2) \/ IncludesChars(str2, str1)
  THEN \* 0.7 + ratio * 0.3 with ratio = min length / max length
       Num(7 * Max(Len(str1), Len(str2)) + 3 * Min(Len(str1), Len(str2)),
           10 * Max(Len(str1), Len(str2)))
  ELSE LET words1 == SplitWords(str1, << >>)
           words2 == SplitWords(str2, << >>)
           common == Cardinality({i \in 1..Len(words1) : words1[i] \in Range(words2)})
           totalUniqueWords == Cardinality(Range(words1) \cup Range(words2))
       IN  Num(common, Max(1, totalUniqueWords))

\* similarity > 0.8
IsSimilar(str1, str2) ==
  LET x == calculateStringSimilarity(str1, str2) IN 10 * x.num > 8 * x.den

RECURSIVE RemoveRedundantFrom_p4(_, _, _)
RemoveRedundantFrom_p4(rest, seenNames, uniqueConcepts) ==
  IF rest = << >> THEN uniqueConcepts
  ELSE LET concept == Head(rest)
           normalizedName == LowerChars(JoinChars(concept.name))
           isDuplicate == \E seenName \in seenNames : IsSimilar(normalizedName, seenName)
       IN  IF ~isDuplicate \/ concept.level = 0 \/ concept.isMainConcept
           THEN RemoveRedundantFrom_p4(Tail(rest), seenNames \cup {normalizedName},
                                       Append(uniqueConcepts, concept))
           ELSE RemoveRedundantFrom_p4(Tail(rest), seenNames, uniqueConcepts)

removeRedundantConcepts_p4(concepts) ==
  RemoveRedundantFrom_p4(
    StableSort(concepts, LAMBDA a, b : a.importance > b.importance), {}, << >>)

validateRelationshipCoherence_p4(relationships, concepts) ==
  SelectSeq(relationships, LAMBDA relation :
    relation.source \in Ids(concepts) /\ relation.target \in Ids(concepts))

\* The level balance with a single level taken as balanced.
levelBalanceScore_flatIsBalanced(concepts) ==
  LET levelSet == {concepts[i].level : i \in 1..Len(concepts)}
      levelCounts(l) == Cardinality({i \in 1..Len(concepts) : concepts[i].level = l})
      next(l) == CHOOSE m \in levelSet : m > l /\ \A k \in levelSet : k > l => m <= k
      penalties == Cardinality({l \in levelSet :
                     /\ \E m \in levelSet : m > l
                     /\ levelCounts(l) < levelCounts(next(l))})
  IN  10 - 2 * penalties

\* levelBalanceScore in tenths: 1.0 less 0.2 for every level that holds
\* fewer concepts than the next one; 0.5 when there is at most one level.
levelBalanceScore(concepts) ==
  LET levelSet == {concepts[i].level : i \in 1..Len(concepts)}
      levelCounts(l) == Cardinality({i \in 1..Len(concepts) : concepts[i].level = l})
      next(l) == CHOOSE m \in levelSet : m > l /\ \A k \in levelSet : k > l => m <= k
      penalties == Cardinality({l \in levelSet :
                     /\ \E m \in levelSet : m > l
                     /\ levelCounts(l) < levelCounts(next(l))})
  IN  IF Cardinality(levelSet) > 1 THEN 10 - 2 * penalties ELSE 5

\* 0.2 * densityScore, times 100 * N, for R relationships and N = max(1, n).
densityTerm(R, N) ==
  IF 5 * R <= N THEN 40 * R
  ELSE IF R <= 2 * N THEN 20 * N - 4 * R
  ELSE 8 * N - Min(8 * N, 2 * (R - 2 * N))

\* connected / max(1, n) * 0.5 + max(0.2, levelBalance) * 0.3
\*   + densityScore * 0.2
calculateCoherenceScore_p4(concepts, relationships) ==
  LET N == Max(1, Len(concepts))
      k == Cardinality(Endpoints(relationships))
  IN  Num(50 * k + 3 * Max(2, levelBalanceScore(concepts)) * N
            + densityTerm(Len(relationships), N),
          100 * N)

(***************************************************************************)
(* Step 5 and 6 of part_004, and its generateEducationalConceptMap.        *)
(***************************************************************************)
formatConcepts_p4(concepts) ==
  [i \in 1..Len(concepts) |->
     [concepts[i] EXCEPT !.formatting =
        IF concepts[i].level = 0 \/ concepts[i].isMainConcept THEN "bold" ELSE "plain"]]

\* rel.visualWeight = rel.strength || 1 ; rel.style by type.
formatRelationships_p4(relationships) ==
  [i \in 1..Len(relationships) |->
     [relationships[i] EXCEPT
        !.visualWeight = IF relationships[i].strength = 0 THEN 10
                         ELSE relationships[i].strength,
        !.lineStyle = IF relationships[i].type = "causal" THEN "thick"
                      ELSE IF relationships[i].type = "hierarchical" THEN "normal"
                      ELSE "dashed"]]

\* identifyMainConcept: the concept it returns (id -1 : the literal
\* { id: 'main', name: 'Concepto Principal' }) and result.concepts after it,
\* which it sorts in place when no concept is marked as main.
DefaultMain == [id |-> -1, name |-> <<"Concepto Principal">>]

byImportance(concepts) ==
  StableSort(concepts, LAMBDA a, b : a.importance > b.importance)

\* result.concepts.reverse() in place of the sort, whatever is marked.
conceptsAfterIdentify_reversed(concepts) ==
  [i \in 1..Len(concepts) |-> concepts[Len(concepts) + 1 - i]]

conceptsAfterIdentify(concepts) ==
  IF \E i \in 1..Len(concepts) : concepts[i].isMainConcept THEN concepts
  ELSE byImportance(concepts)

identifyMainConcept(concepts) ==
  LET mains == SelectSeq(concepts, LAMBDA c : c.isMainConcept)
  IN  IF mains # << >> THEN [id |-> mains[1].id, name |-> mains[1].name]
      ELSE IF concepts # << >>
           THEN [id |-> byImportance(concepts)[1].id,
                 name |-> byImportance(concepts)[1].name]
           ELSE DefaultMain

NoSummary == [defined |-> FALSE, main |-> << >>, nums |-> << >>]

\* The summary text is determined by the main concept's name and by the
\* numbers it prints: concepts, relationships, levels, definitions, examples.
generateConceptualSummary_p4(concepts, relationships) ==
  [defined |-> TRUE,
   main |-> identifyMainConcept(concepts).name,
   nums |-> <<Len(concepts), Len(relationships),
              Cardinality({concepts[i].level : i \in 1..Len(concepts)}),
              Len(SelectSeq(concepts, HasDefinition)),
              Len(SelectSeq(concepts, HasExamples))>>]

\* The lines one concept adds to the Mermaid source: its node declaration
\* and one block for each decoration (node, class and edge lines together).
ConceptBlocks_p4(concept, mainId) ==
  <<[Block("node", concept.id, IF concept.id = mainId THEN "mainConcept" ELSE "", "")
       EXCEPT !.name = concept.name]>>
  \o (IF HasDefinition(concept)
      THEN <<Block("definition", concept.id, concept.definition, "")>> ELSE << >>)
  \o (IF concept.attributes # UndefSeq
      THEN Flatten([i \in 1..Len(concept.attributes) |->
             <<[Block("attribute", concept.id, concept.attributes[i], "")
                  EXCEPT !.nums = <<i - 1>>]>>])
      ELSE << >>)
  \o (IF HasExamples(concept)
      THEN <<[Block("examples", concept.id, "", "")
                EXCEPT !.name = concept.examples]>>
      ELSE << >>)

generateEducationalConceptMap_p4(concepts, relationships, summary) ==
  LET mainConcept == identifyMainConcept(concepts)
      sorted == conceptsAfterIdentify(concepts)
  IN  <<[Block("title", mainConcept.id, "# Mapa Conceptual:", "")
           EXCEPT !.name = mainConcept.name]>>
      \o (IF summary.defined
          THEN <<[Block("summary", -1, "", "")
                    EXCEPT !.name = summary.main, !.nums = summary.nums]>>
          ELSE << >>)
      \o Flatten([i \in 1..Len(sorted) |-> ConceptBlocks_p4(sorted[i], mainConcept.id)])
      \o [i \in 1..Len(relationships) |->
            [Block("edge", -1, relationships[i].label, "")
               EXCEPT !.nums = <<relationships[i].source, relationships[i].target>>]]

(***************************************************************************)
(* part_003, processText: the messages of its two fixed documents.         *)
(***************************************************************************)
\* '# No se pudieron extraer conceptos\n\nNo hay suficiente información ...'
NoConceptsContent == <<Block("placeholder", -1, "# No se pudieron extraer conceptos", "")>>

\* '# Error en el procesamiento\n\nNo se pudo generar el mapa conceptual ...'
ErrorContent == <<Block("error", -1, "# Error en el procesamiento", "")>>

(***************************************************************************)
(* Configuration: the default configuration of processText, its shallow    *)
(* merge with the argument, and the processConfig the controller builds.   *)
(***************************************************************************)
StageNames == <<"organization", "reasoning", "enrichment", "validation",
                "aesthetics", "conclusion">>

StageSet == Range(StageNames)

AllStages == [st \in StageSet |-> TRUE]

\* defaultConfig.maxConcepts
DefaultMaxConcepts == 20

defaultConfig ==
  [maxConcepts |-> DefaultMaxConcepts, stages |-> AllStages,
   includeExamples |-> TRUE, includeDefinitions |-> TRUE]

\* A configuration argument (and the `options' of a request body):
\* maxConcepts -1 stands for an absent key, hasStages FALSE for an absent
\* `stages' object.
ConfigArgs ==
  {[maxConcepts |-> m, hasStages |-> TRUE, stages |-> f] :
      m \in -1..MaxConceptsBound, f \in [StageSet -> BOOLEAN]}
  \cup {[maxConcepts |-> m, hasStages |-> FALSE, stages |-> AllStages] :
      m \in -1..MaxConceptsBound}

\* config = { ...defaultConfig, ...config }
mergeConfig(arg) ==
  [defaultConfig EXCEPT
     !.maxConcepts = IF arg.maxConcepts = -1 THEN @ ELSE arg.maxConcepts,
     !.stages = IF arg.hasStages THEN arg.stages ELSE @]

\* processConfig of generateMap: maxConcepts: options.maxConcepts || 20,
\* every stage: options.stages?.X !== false.
processConfig(options) ==
  [maxConcepts |-> IF options.maxConcepts \in {-1, 0} THEN 20
                   ELSE options.maxConcepts,
   stages |-> [st \in StageSet |-> ~(options.hasStages /\ options.stages[st] = FALSE)],
   includeExamples |-> TRUE, includeDefinitions |-> TRUE]

(***************************************************************************)
(* The Result under construction and what the steps write into it.         *)
(***************************************************************************)
NoText == [kind |-> "none", lines |-> << >>]

newMetadata ==
  [conceptCount |-> 0, relationshipCount |-> 0, stageResults |-> {},
   semanticDepth |-> NoNumber, enrichmentStats |-> << >>,
   coherenceScore |-> NoNumber, conceptsRemoved |-> -1,
   relationshipsRemoved |-> -1, warnings |-> 0,
   limitationApplied |-> NoLimitation, summary |-> NoSummary]

\* The sequences of draws, the i-th one taken from domains[i].
RECURSIVE DrawSeqs(_)
DrawSeqs(domains) ==
  IF domains = << >> THEN {<< >>}
  ELSE {<<d>> \o rest : d \in Head(domains), rest \in DrawSeqs(Tail(domains))}

\* The draws classifyRelationshipTypes of the service makes for a
\* relationship: none for a weak one.
TypeDraws(rel) == IF rel.strength >= 20 THEN RandomDraws ELSE {0}

step1_OrganizeAndHierarchize(text) ==
  sortConceptsByRelevance(extractMainConcepts(text))

step1_OrganizeAndHierarchize_p4(text) ==
  sortConceptsByRelevance_p4(extractMainConcepts_p4(text))

\* step2_AnalyzeRelationships after identifyConceptRelationships: the
\* classification with the given draws, then the weights.
step2_AnalyzeRelationships(found, draws) ==
  assignRelationshipStrength(classifyRelationshipTypes(found, draws))

\* semanticDepth: 1 for a definition, 0.5 an example, 0.3 a related term,
\* over max(1, n), rounded to hundredths.
semanticDepthOf(concepts) ==
  RoundHundredths(
    Num(SumSeq([i \in 1..Len(concepts) |->
                 (IF HasDefinition(concepts[i]) THEN 10 ELSE 0)
                 + (IF concepts[i].examples # UndefSeq
                    THEN 5 * Len(concepts[i].examples) ELSE 0)
                 + (IF concepts[i].relatedTerms # UndefSeq
                    THEN 3 * Len(concepts[i].relatedTerms) ELSE 0)]),
        10 * Max(1, Len(concepts))))

enrichmentStatsOf(concepts) ==
  <<Len(SelectSeq(concepts, HasDefinition)),
    SumSeq([i \in 1..Len(concepts) |->
             IF concepts[i].examples # UndefSeq THEN Len(concepts[i].examples) ELSE 0]),
    SumSeq([i \in 1..Len(concepts) |->
             IF concepts[i].relatedTerms # UndefSeq
             THEN Len(concepts[i].relatedTerms) ELSE 0])>>

\* step4_VerifyAndValidate of the service: the concepts, the relationships
\* and the metadata it leaves.
step4_VerifyAndValidate(concepts, relationships, metadata, scale) ==
  LET uniqueConcepts == removeRedundantConcepts(filterIrrelevantConcepts(concepts, scale))
      valid == validateRelationshipCoherence(relationships, uniqueConcepts)
      coherenceScore == calculateCoherenceScore(uniqueConcepts, valid)
  IN  [concepts |-> uniqueConcepts,
       relationships |-> valid,
       metadata |-> [metadata EXCEPT
          !.coherenceScore = RoundHundredths(coherenceScore),
          !.conceptsRemoved = Len(concepts) - Len(uniqueConcepts),
          !.relationshipsRemoved = Len(relationships) - Len(valid),
          !.warnings = IF BelowHalf(coherenceScore) THEN @ + 1 ELSE @]]

step4_VerifyAndValidate_p4(concepts, relationships, metadata) ==
  LET kept == removeRedundantConcepts_p4(filterIrrelevantConcepts_p4(concepts))
      valid == validateRelationshipCoherence_p4(relationships, kept)
  IN  [concepts |-> kept,
       relationships |-> valid,
       metadata |-> [metadata EXCEPT
          !.coherenceScore = calculateCoherenceScore_p4(kept, valid),
          !.conceptsRemoved = Len(concepts) - Len(kept)]]

\* generateConceptualSummary of the service: the names of the level-0
\* concepts and the numbers of concepts, levels and relationships it prints.
generateConceptualSummary(concepts, relationships) ==
  [defined |-> TRUE,
   main |-> Flatten([i \in 1..Len(AtLevel(concepts, 0)) |-> AtLevel(concepts, 0)[i].name]),
   nums |-> <<Len(concepts),
              Cardinality({concepts[i].level : i \in 1..Len(concepts)}),
              Len(relationships)>>]

\* The limitation with both counts of the record taken after the slice and
\* the filter.
applyLimitation_countedAfter(concepts, relationships, metadata, maxConcepts) ==
  IF limitApplies(concepts, maxConcepts)
  THEN LET kept == limitConcepts(concepts, maxConcepts)
           rels == limitRelationships(relationships, kept)
       IN  [concepts |-> kept, relationships |-> rels,
            metadata |-> [metadata EXCEPT !.limitationApplied =
               [applied |-> TRUE,
                conceptsRemoved |-> Len(kept) - maxConcepts,
                relationshipsRemoved |-> Len(rels) - Len(rels)]]]
  ELSE [concepts |-> concepts, relationships |-> relationships,
        metadata |-> metadata]

\* The limitation of processText: concepts, relationships and metadata
\* after it.
applyLimitation(concepts, relationships, metadata, maxConcepts) ==
  IF limitApplies(concepts, maxConcepts)
  THEN LET kept == limitConcepts(concepts, maxConcepts)
           rels == limitRelationships(relationships, kept)
       IN  [concepts |-> kept, relationships |-> rels,
            metadata |-> [metadata EXCEPT !.limitationApplied =
               [applied |-> TRUE,
                conceptsRemoved |-> Len(concepts) - maxConcepts,
                relationshipsRemoved |-> Len(relationships) - Len(rels)]]]
  ELSE [concepts |-> concepts, relationships |-> relationships,
        metadata |-> metadata]

\* The counts taken before the limitation: those of the metadata as it is.
finalCounts_stale(metadata, concepts, relationships) == metadata

\* result.metadata.conceptCount / relationshipCount at the end of processText.
finalCounts(metadata, concepts, relationships) ==
  [metadata EXCEPT !.conceptCount = Len(concepts),
                   !.relationshipCount = Len(relationships)]

(***************************************************************************)
(* State.  Every variable but `impl' is indexed by the call.               *)
(*   impl           the service module that is loaded                      *)
(*   pc             where processText stands: "idle", the stage it is      *)
(*                  about to test, "limit", "render", "returned" (a        *)
(*                  Result), "returnedError" (part_003's error object) or  *)
(*                  "threw"                                                *)
(*   text, config   the arguments, the configuration after the merge       *)
(*   concepts, relationships, metadata, knowledgeGraph, conceptEmojis,     *)
(*   content        the fields of the Result                               *)
(*   log            the "Ejecutando Etapa N" lines written so far          *)
(*   response       of generateMap: "none" (processText called directly),  *)
(*                  "pending", "200", "400", "500"                         *)
(*   omitted        the stage flags that the `stages' object of the        *)
(*                  configuration argument does not have                   *)
(***************************************************************************)
VARIABLES impl, pc, text, config, concepts, relationships, metadata,
          knowledgeGraph, conceptEmojis, content, log, response, tasks,
          hierarchy, omitted

vars == <<impl, pc, text, config, concepts, relationships, metadata,
          knowledgeGraph, conceptEmojis, content, log, response, tasks,
          hierarchy, omitted>>

Calls == {1, 2}

Impls == {"service", "part004", "part003"}

Init ==
  /\ impl \in Impls
  /\ pc = [c \in Calls |-> "idle"]
  /\ text = [c \in Calls |-> NoText]
  /\ config = [c \in Calls |-> defaultConfig]
  /\ concepts = [c \in Calls |-> << >>]
  /\ relationships = [c \in Calls |-> << >>]
  /\ metadata = [c \in Calls |-> newMetadata]
  /\ knowledgeGraph = [c \in Calls |-> NoKnowledgeGraph]
  /\ conceptEmojis = [c \in Calls |-> FALSE]
  /\ content = [c \in Calls |-> << >>]
  /\ log = [c \in Calls |-> << >>]
  /\ response = [c \in Calls |-> "none"]
  /\ tasks = [c \in Calls |-> << >>]
  /\ hierarchy = [c \in Calls |-> << >>]
  /\ omitted = [c \in Calls |-> {}]

\* The scale of the importance of the concepts of call c.
Scale(c) == IF impl = "service" THEN 3 * WordCount(text[c]) ELSE 30

Completed(meta, stage) == [meta EXCEPT !.stageResults = @ \cup {stage}]

(***************************************************************************)
(* The arguments.  A call is made with any text and any configuration.    *)
(* The configuration argument is drawn key by key, each key in the action  *)
(* that reads it: `config' holds the merged configuration with the default *)
(* value for a key no action has read yet, so that calls which differ only *)
(* in keys not yet read share their states.                                *)
(***************************************************************************)
TextChoices(c) == Texts

\* The value config.stages[stage] has after the merge.  The stages object of
\* the argument replaces that of the default configuration, so that a flag
\* it lacks is undefined (FALSE: the test takes it as false) in a direct
\* call; processConfig of generateMap makes it true (!== false).
FlagChoices(c, stage) ==
  IF stage \in omitted[c] THEN {response[c] = "pending"}
  ELSE {mergeConfig(arg).stages[stage] : arg \in ConfigArgs}

\* The value config.maxConcepts has after the merge, or in the
\* processConfig of generateMap.
MaxConceptsChoices(c) ==
  IF response[c] = "pending"
  THEN {processConfig(options).maxConcepts : options \in ConfigArgs}
  ELSE {mergeConfig(arg).maxConcepts : arg \in ConfigArgs}

\* processText(text, config) of the service and of part_004, called with
\* one of the given texts and with a configuration whose stages object
\* lacks one of the given sets of flags, up to the first stage: the merge of
\* the configuration and the empty Result.
processTextWith(c, texts, omissions) ==
  /\ pc[c] = "idle" /\ response[c] = "none"
  /\ impl \in {"service", "part004"}
  /\ \E t \in texts : text' = [text EXCEPT ![c] = t]
  /\ \E o \in omissions : omitted' = [omitted EXCEPT ![c] = o]
  /\ pc' = [pc EXCEPT ![c] = "organization"]
  /\ UNCHANGED <<impl, hierarchy, tasks, config, concepts, relationships, metadata,
                 knowledgeGraph, conceptEmojis, content, log, response>>

\* processText called with a configuration that has every stage flag or no
\* stages object.
processTextOf(c, texts) == processTextWith(c, texts, {{}})

\* processText called with any text.
processText(c) == processTextOf(c, TextChoices(c))

\* processText of part_003: the input validation throws into the catch
\* block, and so does the call of this._mergeConfigs, which the class does
\* not define; the catch block returns the error object.
processText_p3(c) ==
  /\ pc[c] = "idle" /\ response[c] = "none"
  /\ impl = "part003"
  /\ \E t \in TextChoices(c) :
       /\ text' = [text EXCEPT ![c] = t]
       /\ log' = [log EXCEPT ![c] =
            IF IsFalsy(t) \/ ~IsString(t) \/ IsBlank(t)
            THEN <<"El texto de entrada es requerido y no puede estar vacío">>
            ELSE <<"this._mergeConfigs is not a function">>]
  /\ content' = [content EXCEPT ![c] = ErrorContent]
  /\ pc' = [pc EXCEPT ![c] = "returnedError"]
  /\ UNCHANGED <<impl, omitted, hierarchy, tasks, config, concepts, relationships, metadata,
                 knowledgeGraph, conceptEmojis, response>>

\* generateMap of the controller: 400 for a falsy text, else processText of
\* the service with the processConfig built from the options.
generateMapWith(c, texts, omissions) ==
  /\ pc[c] = "idle" /\ response[c] = "none"
  /\ impl = "service"
  /\ \E t \in texts :
       IF IsFalsy(t)
       THEN /\ response' = [response EXCEPT ![c] = "400"]
            /\ UNCHANGED <<text, pc, omitted>>
       ELSE /\ text' = [text EXCEPT ![c] = t]
            /\ \E o \in omissions : omitted' = [omitted EXCEPT ![c] = o]
            /\ pc' = [pc EXCEPT ![c] = "organization"]
            /\ response' = [response EXCEPT ![c] = "pending"]
  /\ UNCHANGED <<impl, hierarchy, tasks, config, concepts, relationships, metadata,
                 knowledgeGraph, conceptEmojis, content, log>>

\* generateMap called with any text and with options that have every stage
\* flag or no stages object.
generateMap(c) == generateMapWith(c, TextChoices(c), {{}})

\* The end of generateMap: res.json(...) after processText returned, the
\* catch block with status 500 after it threw.
Respond(c) ==
  /\ response[c] = "pending"
  /\ pc[c] \in {"returned", "threw"}
  /\ response' = [response EXCEPT ![c] = IF pc[c] = "returned" THEN "200" ELSE "500"]
  /\ UNCHANGED <<impl, omitted, hierarchy, tasks, pc, text, config, concepts, relationships, metadata,
                 knowledgeGraph, conceptEmojis, content, log>>

\* if (config.stages[stage]) with the flag false: on to the next test.
Skip(c, stage, next) ==
  /\ pc[c] = stage
  /\ FALSE \in FlagChoices(c, stage)
  /\ config' = [config EXCEPT ![c].stages[stage] = FALSE]
  /\ pc' = [pc EXCEPT ![c] = next]
  /\ UNCHANGED <<impl, omitted, hierarchy, tasks, text, concepts, relationships, metadata,
                 knowledgeGraph, conceptEmojis, content, log, response>>

\* The stage entered without the test of its flag.
Enter_unconditional(c, stage) ==
  /\ pc[c] = stage
  /\ \E flag \in FlagChoices(c, stage) :
       config' = [config EXCEPT ![c].stages[stage] = flag]
  /\ log' = [log EXCEPT ![c] = Append(@, stage)]

\* if (config.stages[stage]) with the flag true: the stage is logged and run.
Enter(c, stage) ==
  /\ pc[c] = stage
  /\ TRUE \in FlagChoices(c, stage)
  /\ config' = [config EXCEPT ![c].stages[stage] = TRUE]
  /\ log' = [log EXCEPT ![c] = Append(@, stage)]

\* Stage 1 with the concepts kept in a field of the service instance, which
\* every call in flight shares.
Organization_sharedField(c) ==
  /\ Enter(c, "organization")
  /\ IF ~IsString(text[c])
     THEN /\ pc' = [pc EXCEPT ![c] = "threw"]
          /\ UNCHANGED <<concepts, hierarchy, metadata>>
     ELSE /\ concepts' = [d \in Calls |->
               IF impl = "service" THEN step1_OrganizeAndHierarchize(text[c])
               ELSE step1_OrganizeAndHierarchize_p4(text[c])]
          /\ hierarchy' = [d \in Calls |->
               IF impl = "service" THEN createHierarchicalStructure(concepts'[c])
               ELSE createHierarchicalStructure_p4(concepts'[c])]
          /\ metadata' = [metadata EXCEPT ![c] = Completed(@, "organization")]
          /\ pc' = [pc EXCEPT ![c] = "reasoning"]
  /\ UNCHANGED <<impl, omitted, tasks, text, relationships, knowledgeGraph,
                 conceptEmojis, content, response>>

\* Stage 1.  text.split of a text that is no string is a TypeError.
Organization(c) ==
  /\ Enter(c, "organization")
  /\ IF ~IsString(text[c])
     THEN /\ pc' = [pc EXCEPT ![c] = "threw"]
          /\ UNCHANGED <<concepts, hierarchy, metadata>>
     ELSE /\ concepts' = [concepts EXCEPT ![c] =
               IF impl = "service" THEN step1_OrganizeAndHierarchize(text[c])
               ELSE step1_OrganizeAndHierarchize_p4(text[c])]
          /\ hierarchy' = [hierarchy EXCEPT ![c] =
               IF impl = "service" THEN createHierarchicalStructure(concepts'[c])
               ELSE createHierarchicalStructure_p4(concepts'[c])]
          /\ metadata' = [metadata EXCEPT ![c] = Completed(@, "organization")]
          /\ pc' = [pc EXCEPT ![c] = "reasoning"]
  /\ UNCHANGED <<impl, omitted, tasks, text, relationships, knowledgeGraph,
                 conceptEmojis, content, response>>

\* Stage 2.  The service splits the text again (a TypeError for a text that
\* is no string) and draws the type of every relationship at random;
\* part_004 does not look at the text.
Reasoning(c) ==
  /\ Enter(c, "reasoning")
  /\ IF impl = "service" /\ ~IsString(text[c])
     THEN /\ pc' = [pc EXCEPT ![c] = "threw"]
          /\ UNCHANGED <<relationships, knowledgeGraph, metadata>>
     ELSE /\ IF impl = "service"
             THEN LET found == identifyConceptRelationships(text[c], concepts[c])
                  IN  \E draws \in DrawSeqs([i \in 1..Len(found) |-> TypeDraws(found[i])]) :
                        LET weighted == step2_AnalyzeRelationships(found, draws)
                        IN  /\ relationships' = [relationships EXCEPT ![c] = weighted]
                            /\ knowledgeGraph' = [knowledgeGraph EXCEPT ![c] =
                                 createKnowledgeGraph(concepts[c], weighted)]
             ELSE LET found == detectConceptRelationships(concepts[c])
                  IN  \E draws \in DrawSeqs([i \in 1..Len(found) |-> ClassifyDraws_p4(found[i])]) :
                        /\ relationships' = [relationships EXCEPT ![c] =
                             classifyRelationshipTypes_p4(found, draws)]
                        /\ UNCHANGED knowledgeGraph
          /\ metadata' = [metadata EXCEPT ![c] = Completed(@, "reasoning")]
          /\ pc' = [pc EXCEPT ![c] = "enrichment"]
  /\ UNCHANGED <<impl, omitted, hierarchy, tasks, text, concepts, conceptEmojis, content, response>>

\* Stage 3.  part_004 draws the subcategory of a concept whose name holds a
\* keyword at random.
Enrichment(c) ==
  /\ Enter(c, "enrichment")
  /\ IF impl = "service"
     THEN LET enriched == step3_EnrichSemantically(concepts[c], Scale(c))
          IN  /\ concepts' = [concepts EXCEPT ![c] = enriched]
              /\ metadata' = [metadata EXCEPT ![c] =
                   Completed([@ EXCEPT !.semanticDepth = semanticDepthOf(enriched),
                                       !.enrichmentStats = enrichmentStatsOf(enriched)],
                             "enrichment")]
     ELSE /\ \E draws \in DrawSeqs([i \in 1..Len(concepts[c]) |->
                                      SubcategoryDraws(concepts[c][i])]) :
               concepts' = [concepts EXCEPT ![c] =
                 step3_EnrichSemantically_p4(concepts[c], config[c], draws)]
          /\ metadata' = [metadata EXCEPT ![c] = Completed(@, "enrichment")]
  /\ pc' = [pc EXCEPT ![c] = "validation"]
  /\ UNCHANGED <<impl, omitted, hierarchy, tasks, text, relationships, knowledgeGraph,
                 conceptEmojis, content, response>>

(***************************************************************************)
(* Stage 3 of part_004 task by task.  The concepts are taken in batches of *)
(* batchSize; batch.map starts the task of every concept of the batch, and *)
(* each task runs up to its first await; a step resumes one task at the    *)
(* await it is suspended at, makes the assignment and runs the task up to  *)
(* its next await; when every promise of the batch is settled the await of *)
(* Promise.all resumes the loop, which starts the next batch or returns.   *)
(* tasks[c][i].at is the await task i is suspended at ("waiting" before    *)
(* batch.map reaches it, "done" after its return); tasks[c][i].runs counts *)
(* how many times the task was started.                                    *)
(***************************************************************************)
batchSize == 5

\* The batch of the i-th concept: slice(k * batchSize, (k + 1) * batchSize).
BatchOf(i) == (i - 1) \div batchSize

\* The first await of a task.
firstAwait(options) ==
  IF options.includeDefinitions THEN "definition"
  ELSE IF options.includeExamples THEN "examples"
  ELSE "relatedTerms"

\* batch.map(async (concept) => ...) for batch k.
startBatch(ts, k, options) ==
  [i \in 1..Len(ts) |->
     IF BatchOf(i) = k
     THEN [at |-> firstAwait(options), runs |-> ts[i].runs + 1]
     ELSE ts[i]]

\* The next batch is started as soon as one task has returned.
batchSettled_any(ts) ==
  \E i \in 1..Len(ts) : ts[i].at = "done"

\* Promise.all of the batch in flight is fulfilled: every task that was
\* started has returned.
batchSettled(ts) ==
  \A i \in 1..Len(ts) : ts[i].at # "waiting" => ts[i].at = "done"

\* if (config.stages.enrichment), the loop up to its first await.
EnrichBegin(c) ==
  /\ impl = "part004"
  /\ Enter(c, "enrichment")
  /\ IF concepts[c] = << >>
     THEN /\ tasks' = [tasks EXCEPT ![c] = << >>]
          /\ metadata' = [metadata EXCEPT ![c] = Completed(@, "enrichment")]
          /\ pc' = [pc EXCEPT ![c] = "validation"]
     ELSE /\ tasks' = [tasks EXCEPT ![c] =
               startBatch([i \in 1..Len(concepts[c]) |->
                             [at |-> "waiting", runs |-> 0]], 0, config[c])]
          /\ pc' = [pc EXCEPT ![c] = "enriching"]
          /\ UNCHANGED metadata
  /\ UNCHANGED <<impl, omitted, hierarchy, text, concepts, relationships, knowledgeGraph,
                 conceptEmojis, content, response>>

\* The task of the i-th concept resumes.
EnrichTask(c, i) ==
  /\ pc[c] = "enriching"
  /\ i \in 1..Len(tasks[c])
  /\ LET concept == concepts[c][i]
         at == tasks[c][i].at
     IN  \/ /\ at = "definition"
            /\ concepts' = [concepts EXCEPT ![c][i].definition =
                              generateConciseDefinition_p4(concept)]
            /\ tasks' = [tasks EXCEPT ![c][i].at =
                           IF config[c].includeExamples THEN "examples"
                           ELSE "relatedTerms"]
         \/ /\ at = "examples"
            /\ concepts' = [concepts EXCEPT ![c][i].examples =
                              findRelevantExamples_p4(concept)]
            /\ tasks' = [tasks EXCEPT ![c][i].at = "relatedTerms"]
         \/ /\ at = "relatedTerms"
            /\ concepts' = [concepts EXCEPT ![c][i].relatedTerms =
                              identifyRelatedTerms_p4(concept)]
            /\ tasks' = [tasks EXCEPT ![c][i].at = "classification"]
         \/ /\ at = "classification"
            /\ \E draw \in SubcategoryDraws(concept) :
                 LET classification == classifyConcept_p4(concept, draw)
                     classified ==
                       [concept EXCEPT
                          !.category = classification.category,
                          !.subcategory = classification.subcategory,
                          !.importance =
                             IF concept.importance # 0 THEN concept.importance
                             ELSE (30 * (Len(concept.relatedTerms) + 1))
                                    \div (concept.level + 1)]
                 IN  concepts' = [concepts EXCEPT ![c][i] =
                       [classified EXCEPT
                          !.attributes = extractConceptAttributes(classified)]]
            /\ tasks' = [tasks EXCEPT ![c][i].at = "done"]
  /\ UNCHANGED <<impl, omitted, hierarchy, pc, text, config, relationships, metadata,
                 knowledgeGraph, conceptEmojis, content, log, response>>

\* await Promise.all(...) resumes: the next batch, or the return of step 3
\* and the record of the stage.
EnrichBatchDone(c) ==
  /\ pc[c] = "enriching"
  /\ batchSettled(tasks[c])
  /\ IF \E i \in 1..Len(tasks[c]) : tasks[c][i].at = "waiting"
     THEN /\ tasks' = [tasks EXCEPT ![c] =
               startBatch(@, BatchOf(CHOOSE i \in 1..Len(@) :
                                      /\ @[i].at = "waiting"
                                      /\ \A j \in 1..(i - 1) : @[j].at # "waiting"),
                          config[c])]
          /\ UNCHANGED <<pc, metadata>>
     ELSE /\ pc' = [pc EXCEPT ![c] = "validation"]
          /\ metadata' = [metadata EXCEPT ![c] = Completed(@, "enrichment")]
          /\ UNCHANGED tasks
  /\ UNCHANGED <<impl, omitted, hierarchy, text, config, concepts, relationships,
                 knowledgeGraph, conceptEmojis, content, log, response>>

\* The promise task i awaits is rejected: the await throws inside the
\* task, which has no try/catch, so the promise of the task is rejected.
\* One task of a call at most is made to fail or to hang.
EnrichTaskRejects(c, i) ==
  /\ pc[c] = "enriching"
  /\ i \in 1..Len(tasks[c])
  /\ tasks[c][i].at \notin {"waiting", "done"}
  /\ \A j \in 1..Len(tasks[c]) : tasks[c][j].at \notin {"failed", "hung"}
  /\ tasks' = [tasks EXCEPT ![c][i].at = "failed"]
  /\ UNCHANGED <<impl, omitted, hierarchy, pc, text, config, concepts, relationships, metadata,
                 knowledgeGraph, conceptEmojis, content, log, response>>

\* The promise task i awaits is never settled: the task stays suspended.
EnrichTaskHangs(c, i) ==
  /\ pc[c] = "enriching"
  /\ i \in 1..Len(tasks[c])
  /\ tasks[c][i].at \notin {"waiting", "done"}
  /\ \A j \in 1..Len(tasks[c]) : tasks[c][j].at \notin {"failed", "hung"}
  /\ tasks' = [tasks EXCEPT ![c][i].at = "hung"]
  /\ UNCHANGED <<impl, omitted, hierarchy, pc, text, config, concepts, relationships, metadata,
                 knowledgeGraph, conceptEmojis, content, log, response>>

\* Promise.all is rejected with the first rejection of a task: the await in
\* step 3 throws, step 3 has no try/catch, and the catch block of
\* processText logs the error and throws it again.
EnrichRejected(c) ==
  /\ pc[c] = "enriching"
  /\ \E i \in 1..Len(tasks[c]) : tasks[c][i].at = "failed"
  /\ pc' = [pc EXCEPT ![c] = "threw"]
  /\ UNCHANGED <<impl, omitted, hierarchy, tasks, text, config, concepts, relationships, metadata,
                 knowledgeGraph, conceptEmojis, content, log, response>>

\* Stage 4.
Validation(c) ==
  /\ Enter(c, "validation")
  /\ LET r == IF impl = "service"
              THEN step4_VerifyAndValidate(concepts[c], relationships[c],
                                           metadata[c], Scale(c))
              ELSE step4_VerifyAndValidate_p4(concepts[c], relationships[c],
                                              metadata[c])
     IN  /\ concepts' = [concepts EXCEPT ![c] = r.concepts]
         /\ relationships' = [relationships EXCEPT ![c] = r.relationships]
         /\ metadata' = [metadata EXCEPT ![c] = Completed(r.metadata, "validation")]
  /\ pc' = [pc EXCEPT ![c] = "aesthetics"]
  /\ UNCHANGED <<impl, omitted, hierarchy, tasks, text, knowledgeGraph, conceptEmojis, content,
                 response>>

\* Stage 5.  The service builds the knowledge graph again.
Aesthetics(c) ==
  /\ Enter(c, "aesthetics")
  /\ conceptEmojis' = [conceptEmojis EXCEPT ![c] = TRUE]
  /\ IF impl = "service"
     THEN LET formatted == formatConcepts(concepts[c], Scale(c))
              styled == formatRelationships(relationships[c], formatted, Scale(c))
          IN  /\ concepts' = [concepts EXCEPT ![c] = formatted]
              /\ relationships' = [relationships EXCEPT ![c] = styled]
              /\ knowledgeGraph' = [knowledgeGraph EXCEPT ![c] =
                   createKnowledgeGraph(formatted, styled)]
     ELSE /\ concepts' = [concepts EXCEPT ![c] = formatConcepts_p4(@)]
          /\ relationships' = [relationships EXCEPT ![c] = formatRelationships_p4(@)]
          /\ UNCHANGED knowledgeGraph
  /\ metadata' = [metadata EXCEPT ![c] = Completed(@, "aesthetics")]
  /\ pc' = [pc EXCEPT ![c] = "conclusion"]
  /\ UNCHANGED <<impl, omitted, hierarchy, tasks, text, content, response>>

\* Stage 6.  identifyMainConcept of part_004 may sort result.concepts.
Conclusion(c) ==
  /\ Enter(c, "conclusion")
  /\ IF impl = "service"
     THEN /\ metadata' = [metadata EXCEPT ![c] =
               Completed([@ EXCEPT !.summary =
                  generateConceptualSummary(concepts[c], relationships[c])],
                  "conclusion")]
          /\ UNCHANGED concepts
     ELSE /\ metadata' = [metadata EXCEPT ![c] =
               Completed([@ EXCEPT !.summary =
                  generateConceptualSummary_p4(concepts[c], relationships[c])],
                  "conclusion")]
          /\ concepts' = [concepts EXCEPT ![c] = conceptsAfterIdentify(@)]
  /\ pc' = [pc EXCEPT ![c] = "limit"]
  /\ UNCHANGED <<impl, omitted, hierarchy, tasks, text, relationships, knowledgeGraph,
                 conceptEmojis, content, response>>

\* The limitation of the concepts to config.maxConcepts.
Limit(c) ==
  /\ pc[c] = "limit"
  /\ \E maxConcepts \in MaxConceptsChoices(c) :
       LET r == applyLimitation(concepts[c], relationships[c], metadata[c],
                                maxConcepts)
       IN  /\ config' = [config EXCEPT ![c].maxConcepts = maxConcepts]
           /\ concepts' = [concepts EXCEPT ![c] = r.concepts]
           /\ relationships' = [relationships EXCEPT ![c] = r.relationships]
           /\ metadata' = [metadata EXCEPT ![c] = r.metadata]
  /\ pc' = [pc EXCEPT ![c] = "render"]
  /\ UNCHANGED <<impl, omitted, hierarchy, tasks, text, knowledgeGraph, conceptEmojis, content,
                 log, response>>

\* generateEducationalConceptMap, the final counts and the return.
Render(c) ==
  /\ pc[c] = "render"
  /\ IF impl = "service"
     THEN /\ content' = [content EXCEPT ![c] =
               generateEducationalConceptMap(
                 [concepts |-> concepts[c], relationships |-> relationships[c]],
                 conceptEmojis[c])]
          /\ UNCHANGED concepts
     ELSE /\ content' = [content EXCEPT ![c] =
               generateEducationalConceptMap_p4(concepts[c], relationships[c],
                                                metadata[c].summary)]
          /\ concepts' = [concepts EXCEPT ![c] = conceptsAfterIdentify(@)]
  /\ metadata' = [metadata EXCEPT ![c] =
       finalCounts(@, concepts'[c], relationships[c])]
  /\ pc' = [pc EXCEPT ![c] = "returned"]
  /\ UNCHANGED <<impl, omitted, hierarchy, tasks, text, config, relationships, knowledgeGraph,
                 conceptEmojis, log, response>>

SkipStage(c) ==
  \/ Skip(c, "organization", "reasoning")
  \/ Skip(c, "reasoning", "enrichment")
  \/ Skip(c, "enrichment", "validation")
  \/ Skip(c, "validation", "aesthetics")
  \/ Skip(c, "aesthetics", "conclusion")
  \/ Skip(c, "conclusion", "limit")

\* The stages, the limitation and the return of a call that has started.
Run(c) ==
  \/ SkipStage(c)
  \/ Organization(c)
  \/ Reasoning(c)
  \/ Enrichment(c)
  \/ Validation(c)
  \/ Aesthetics(c)
  \/ Conclusion(c)
  \/ Limit(c)
  \/ Render(c)

Step(c) ==
  \/ processText(c)
  \/ processText_p3(c)
  \/ generateMap(c)
  \/ Respond(c)
  \/ Run(c)

\* One call.
Next == Step(1)

Spec == Init /\ [][Next]_vars

(***************************************************************************)
(* Two calls of processText, one after the other, the second one with the  *)
(* text and the configuration of the first.  The texts are a heading and a *)
(* paragraph: one concept whose name holds a keyword of classifyConcept,   *)
(* and two concepts that share sentences.                                  *)
(***************************************************************************)
PairTexts == {StringText(<<H1>>), StringText(<<PP>>)}

\* Call 2 is given the key that call 1 was given, for the key it reads in
\* this step.
SameArguments ==
  /\ pc[2] \in StageSet => config'[2].stages[pc[2]] = config[1].stages[pc[2]]
  /\ pc[2] = "limit" => config'[2].maxConcepts = config[1].maxConcepts

NextPair ==
  \/ processText(1) /\ text'[1] \in PairTexts
  \/ Run(1)
  \/ pc[1] = "returned" /\ processText(2) /\ text'[2] = text[1]
  \/ Run(2) /\ SameArguments

SpecPair == Init /\ [][NextPair]_vars

(***************************************************************************)
(* Two calls of processText on the one exported instance, interleaved at   *)
(* the awaits of processText: a step is one stage of one call, and between *)
(* two stages of a call the other call may run any number of its own.      *)
(* Each call is given its own text, a heading or a paragraph, and a        *)
(* configuration with every stage enabled.                                 *)
(***************************************************************************)
NextConcurrent ==
  \E c \in Calls :
    \/ processText(c) /\ text'[c] \in PairTexts
    \/ processText_p3(c) /\ text'[c] \in PairTexts
    \/ Organization(c)
    \/ Reasoning(c)
    \/ Enrichment(c)
    \/ Validation(c)
    \/ Aesthetics(c)
    \/ Conclusion(c)
    \/ Limit(c)
    \/ Render(c)

SpecConcurrent == Init /\ [][NextConcurrent]_vars

(***************************************************************************)
(* Stage 3 of one call of part_004, task by task.  The call was given a    *)
(* text of up to EnrichLines headings and a configuration that disables    *)
(* the analysis of the relationships, and has completed stage 1: six       *)
(* concepts and more make two batches.                                     *)
(***************************************************************************)
EnrichLines == 4

EnrichTexts == {StringText([i \in 1..n |-> H2]) : n \in 1..EnrichLines}

InitEnrich ==
  /\ impl = "part004"
  /\ pc = [c \in Calls |-> IF c = 1 THEN "enrichment" ELSE "idle"]
  /\ \E t \in EnrichTexts : text = [c \in Calls |-> IF c = 1 THEN t ELSE NoText]
  /\ config = [c \in Calls |->
       IF c = 1 THEN [defaultConfig EXCEPT !.stages["reasoning"] = FALSE]
       ELSE defaultConfig]
  /\ concepts = [c \in Calls |->
       IF c = 1 THEN step1_OrganizeAndHierarchize_p4(text[1]) ELSE << >>]
  /\ relationships = [c \in Calls |-> << >>]
  /\ metadata = [c \in Calls |->
       IF c = 1 THEN Completed(newMetadata, "organization") ELSE newMetadata]
  /\ knowledgeGraph = [c \in Calls |-> NoKnowledgeGraph]
  /\ conceptEmojis = [c \in Calls |-> FALSE]
  /\ content = [c \in Calls |-> << >>]
  /\ log = [c \in Calls |-> IF c = 1 THEN <<"organization">> ELSE << >>]
  /\ response = [c \in Calls |-> "none"]
  /\ tasks = [c \in Calls |-> << >>]
  /\ hierarchy = [c \in Calls |->
       IF c = 1 THEN createHierarchicalStructure_p4(concepts[1]) ELSE << >>]
  /\ omitted = [c \in Calls |-> {}]

NextEnrich ==
  \/ EnrichBegin(1)
  \/ \E i \in 1..(EnrichLines + 2) : EnrichTask(1, i)
  \/ EnrichBatchDone(1)

SpecEnrich == InitEnrich /\ [][NextEnrich]_vars

\* Stage 3 task by task, with one awaited promise that is rejected or is
\* never settled.
NextEnrichFaults ==
  \/ NextEnrich
  \/ \E i \in 1..(EnrichLines + 2) : EnrichTaskRejects(1, i)
  \/ \E i \in 1..(EnrichLines + 2) : EnrichTaskHangs(1, i)
  \/ EnrichRejected(1)

SpecEnrichFaults == InitEnrich /\ [][NextEnrichFaults]_vars

(***************************************************************************)
(* Stage 1 of one call on a text of up to HierarchyLines headings: a text  *)
(* of six headings gives part_004 one concept of level 0 and five of       *)
(* level 1.                                                                *)
(***************************************************************************)
HierarchyLines == 6

HeadingLines(n) == [1..n -> {H1, H2}]

HeadingTexts ==
  {StringText(lines) : lines \in UNION {HeadingLines(n) : n \in 1..HierarchyLines}}

\* The headings, and a paragraph followed by a heading: in the service
\* three concepts of level 0 and one of level 1.
HierarchyTexts == HeadingTexts \cup {StringText(<<PP>>), StringText(<<PP, H2>>)}

NextHierarchy ==
  \/ processTextOf(1, HierarchyTexts)
  \/ Organization(1)

SpecHierarchy == Init /\ [][NextHierarchy]_vars

(***************************************************************************)
(* One call on a text of many distinct words, up to the validation: the    *)
(* first line holds the first n of thirteen words, alone or followed by    *)
(* filler words, and a line of filler words may follow.  The thirteenth    *)
(* word of the service has index 12: level 2, not critical, importance     *)
(* 100/W + 1.  Reasoning and enrichment are disabled.                      *)
(***************************************************************************)
FilterWords ==
  <<"mapas", "agua", "ideas", "ideal", "mapa", "concepto", "conceptual",
    "artificial", "aprendizaje", "inteligencia", "ciencia", "sistema",
    "modelo">>

FilterTexts ==
  {StringText(<<Line(SubSeq(FilterWords, 1, n), fill)>> \o rest) :
     n \in 1..Len(FilterWords), fill \in {0, PadWords},
     rest \in {<< >>, <<PAD>>}}

NextFilter ==
  \/ processTextOf(1, FilterTexts)
  \/ Organization(1)
  \/ Skip(1, "reasoning", "enrichment")
  \/ Skip(1, "enrichment", "validation")
  \/ Validation(1)

SpecFilter == Init /\ [][NextFilter]_vars

(***************************************************************************)
(* The organization stage of one call on the texts of headings and on      *)
(* texts that begin with an empty line: part_004 takes no main concept     *)
(* from an empty first paragraph, so that no concept is of level 0.        *)
(***************************************************************************)
RootTexts ==
  HierarchyTexts
    \cup {StringText(<<BlankLine>> \o ls) : ls \in SeqsUpTo(LineSet, 2) \ {<< >>}}

NextRoots ==
  \/ processTextOf(1, RootTexts)
  \/ Organization(1)

SpecRoots == Init /\ [][NextRoots]_vars

(***************************************************************************)
(* One call on the same texts up to the validation, with or without the    *)
(* reasoning stage and without the enrichment: the concepts of a validated *)
(* call are on one level or on several, with and without relationships.    *)
(***************************************************************************)
NextBalance ==
  \/ processTextOf(1, RootTexts)
  \/ Organization(1)
  \/ Reasoning(1)
  \/ Skip(1, "reasoning", "enrichment")
  \/ Skip(1, "enrichment", "validation")
  \/ Validation(1)

SpecBalance == Init /\ [][NextBalance]_vars

(***************************************************************************)
(* One call, direct or through generateMap, with a configuration whose     *)
(* stages object has only some of the six flags.                           *)
(***************************************************************************)
StageTexts == {StringText(<<PP>>), StringText(<<H2>>)}

Omissions == SUBSET StageSet \ {{}}

NextStages ==
  \/ processTextWith(1, StageTexts, Omissions)
  \/ generateMapWith(1, StageTexts, Omissions)
  \/ Respond(1)
  \/ Run(1)

SpecStages == Init /\ [][NextStages]_vars

(***************************************************************************)
(* One call up to the validation on texts of headings, paragraphs and list *)
(* items, with a heading that repeats a word: the names of the title       *)
(* concepts of part_004 are whole headings, of several words.              *)
(***************************************************************************)
H3 == Line(<<"#", "Agua", "Agua", "Agua">>, 0)

SimilarityTexts == {StringText(ls) : ls \in SeqsUpTo({H1, H2, H3, PP, LI}, 2)}

NextSimilarity ==
  \/ processTextOf(1, SimilarityTexts)
  \/ Organization(1)
  \/ Skip(1, "reasoning", "enrichment")
  \/ Skip(1, "enrichment", "validation")
  \/ Validation(1)

SpecSimilarity == Init /\ [][NextSimilarity]_vars

(***************************************************************************)
(* Properties.                                                             *)
(***************************************************************************)
\* processText has returned a Result to call c.
Returned(c) == pc[c] = "returned"

Dangling(rels, cs) ==
  {i \in 1..Len(rels) : rels[i].source \notin Ids(cs) \/ rels[i].target \notin Ids(cs)}

\* C1: for every non-empty text and every configuration, every
\* relationship of the Result processText returns has a source and a target
\* that are ids of concepts of the Result.
C1_EndpointsPresent ==
  \A c \in Calls :
    (Returned(c) /\ IsString(text[c]) /\ ~IsFalsy(text[c]))
      => Dangling(relationships[c], concepts[c]) = {}

\* A Result that kept relationships after the limitation removed others
\* together with their concepts.
C1_Witness ==
  /\ Returned(1)
  /\ relationships[1] # << >>
  /\ metadata[1].limitationApplied.applied
  /\ metadata[1].limitationApplied.relationshipsRemoved > 0

\* C2: in every Result processText returns, metadata.conceptCount is
\* concepts.length and metadata.relationshipCount is relationships.length,
\* whichever stages ran and whatever validation or limitation removed.
C2_CountsAgree ==
  \A c \in Calls :
    Returned(c) =>
      /\ metadata[c].conceptCount = Len(concepts[c])
      /\ metadata[c].relationshipCount = Len(relationships[c])

\* A Result with concepts and relationships left after the validation and
\* the limitation both removed concepts.
C2_Witness ==
  /\ Returned(1)
  /\ metadata[1].conceptsRemoved > 0
  /\ metadata[1].limitationApplied.applied
  /\ metadata[1].conceptCount > 0
  /\ metadata[1].relationshipCount > 0

\* C3: for every maxConcepts >= 0, when more than maxConcepts concepts reach
\* the limitation, exactly maxConcepts concepts are left, no removed concept
\* has a strictly higher importance than a kept one, no relationship left
\* has a removed concept as source or target, and the return that follows
\* hands out these concepts and relationships.
C3_Limitation ==
  [][\A c \in Calls :
       /\ (/\ pc[c] = "limit" /\ pc'[c] = "render"
           /\ config'[c].maxConcepts >= 0
           /\ Len(concepts[c]) > config'[c].maxConcepts)
          => /\ Len(concepts'[c]) = config'[c].maxConcepts
             /\ \A i \in 1..Len(concepts[c]) : \A k \in 1..Len(concepts'[c]) :
                  concepts[c][i].id \notin Ids(concepts'[c])
                    => concepts[c][i].importance <= concepts'[c][k].importance
             /\ Ids(concepts'[c]) \subseteq Ids(concepts[c])
             /\ Dangling(relationships'[c], concepts'[c]) = {}
       /\ (pc[c] = "render" /\ pc'[c] = "returned")
          => /\ Len(concepts'[c]) = Len(concepts[c])
             /\ Ids(concepts'[c]) = Ids(concepts[c])
             /\ relationships'[c] = relationships[c]]_vars

\* A Result of exactly maxConcepts > 0 concepts after the limitation removed
\* concepts and relationships.
C3_Witness ==
  /\ Returned(1)
  /\ metadata[1].limitationApplied.applied
  /\ metadata[1].limitationApplied.conceptsRemoved > 0
  /\ metadata[1].limitationApplied.relationshipsRemoved > 0
  /\ config[1].maxConcepts > 0
  /\ Len(concepts[1]) = config[1].maxConcepts

\* C4: the limitation applied to a Result that has at most maxConcepts
\* concepts leaves concepts, their order, relationships and metadata as
\* they are; so limiting a second time changes nothing.
C4_LimitationIdempotent ==
  \A c \in Calls :
    pc[c] = "render" =>
      \A maxConcepts \in 0..DefaultMaxConcepts :
        Len(concepts[c]) <= maxConcepts =>
          applyLimitation(concepts[c], relationships[c], metadata[c], maxConcepts)
            = [concepts |-> concepts[c], relationships |-> relationships[c],
               metadata |-> metadata[c]]

\* The limitation has removed concepts and left exactly maxConcepts > 0.
C4_Witness ==
  /\ pc[1] = "render"
  /\ metadata[1].limitationApplied.applied
  /\ metadata[1].limitationApplied.conceptsRemoved > 0
  /\ Len(concepts[1]) = config[1].maxConcepts
  /\ concepts[1] # << >>

InUnitInterval(x) == x.kind = "num" /\ 0 <= x.num /\ x.num <= x.den

\* C5: the coherence score the validation stage writes to
\* metadata.coherenceScore is a number in [0,1], for zero concepts, for one
\* concept and for two concepts with an edge in each direction as well.
C5_CoherenceInUnitInterval ==
  \A c \in Calls :
    "validation" \in metadata[c].stageResults
      => InUnitInterval(metadata[c].coherenceScore)

\* An empty, whitespace-only or non-string text.
InvalidText(t) == ~IsString(t) \/ IsFalsy(t) \/ IsBlank(t)

\* C6: processText called with an empty, whitespace-only or non-string text
\* runs no stage and returns no Result.
C6_InvalidTextRejected ==
  \A c \in Calls :
    (pc[c] # "idle" /\ InvalidText(text[c]))
      => /\ Range(log[c]) \cap StageSet = {}
         /\ metadata[c].stageResults = {}
         /\ ~Returned(c)

\* C7: when the extraction yields no concept, processText returns a Result
\* with no concepts, no relationships and the placeholder as content.
C7_PlaceholderForNoConcepts ==
  \A c \in Calls :
    (/\ Returned(c) /\ IsString(text[c])
     /\ "organization" \in metadata[c].stageResults
     /\ (IF impl = "service" THEN extractMainConcepts(text[c])
         ELSE extractMainConcepts_p4(text[c])) = << >>)
      => /\ concepts[c] = << >>
         /\ relationships[c] = << >>
         /\ content[c] = NoConceptsContent

\* C8: with the enrichment stage disabled, no concept of the Result has a
\* definition or examples.
C8_NoEnrichmentFields ==
  \A c \in Calls :
    (Returned(c) /\ ~config[c].stages["enrichment"])
      => \A i \in 1..Len(concepts[c]) :
           ~HasDefinition(concepts[c][i]) /\ ~HasExamples(concepts[c][i])

\* C9: the relationships the reasoning stage leaves hold no edge whose
\* source is its target and no two edges with the same source, target and
\* type.
C9_NoSelfLoopNoDuplicate ==
  \A c \in Calls :
    (pc[c] = "enrichment" /\ "reasoning" \in metadata[c].stageResults)
      => LET rels == relationships[c]
         IN  /\ \A i \in 1..Len(rels) : rels[i].source # rels[i].target
             /\ \A i, j \in 1..Len(rels) :
                  (/\ rels[i].source = rels[j].source
                   /\ rels[i].target = rels[j].target
                   /\ rels[i].type = rels[j].type) => i = j

\* The reasoning stage has left an edge in each direction between two
\* concepts, both of the same type.
C9_Witness ==
  /\ pc[1] = "enrichment"
  /\ "reasoning" \in metadata[1].stageResults
  /\ \E i, j \in 1..Len(relationships[1]) :
       /\ i # j
       /\ relationships[1][i].source = relationships[1][j].target
       /\ relationships[1][i].target = relationships[1][j].source
       /\ relationships[1][i].type = relationships[1][j].type

\* C10: two calls of processText with the same text and the same
\* configuration return the same concepts, the same relationships and the
\* same content.
C10_Deterministic ==
  (Returned(1) /\ Returned(2))
    => /\ concepts[1] = concepts[2]
       /\ relationships[1] = relationships[2]
       /\ content[1] = content[2]

\* generateEducationalConceptMap called on the Result as call c holds it.
Rendered(c) ==
  IF impl = "service"
  THEN generateEducationalConceptMap(
         [concepts |-> concepts[c], relationships |-> relationships[c]],
         conceptEmojis[c])
  ELSE generateEducationalConceptMap_p4(concepts[c], relationships[c],
                                        metadata[c].summary)

\* C11: generateEducationalConceptMap called again on the Result that
\* processText has rendered and returned gives the very text of the first
\* call.
C11_RenderRepeatable ==
  \A c \in Calls : Returned(c) => Rendered(c) = content[c]

\* A rendered Result of part_004 with several concepts and an edge, and one
\* of the service with a sub-concept below a main concept.
C11_Witness ==
  /\ Returned(1)
  /\ Len(concepts[1]) >= 2
  /\ relationships[1] # << >>
  /\ \E i \in 1..Len(content[1]) : content[1][i].tag \in {"edge", "h3"}

\* The blocks of a document that declare a concept: a node line of the
\* Mermaid source, a heading or a detail item of the Markdown outline.
ConceptDeclarations(doc) ==
  {i \in 1..Len(doc) : doc[i].tag \in {"node", "h2", "h3", "detail"}}

\* The blocks of a document that print a relationship with its label: a
\* labelled edge line of the Mermaid source, a relation line or a detail
\* item of the Markdown outline.
RelationshipLines(doc) ==
  {i \in 1..Len(doc) : doc[i].tag \in {"edge", "relation", "detail"}}

\* C12: result.content declares as many concepts as result.concepts holds
\* and prints as many labelled relationship lines as result.relationships
\* holds, decorations (definition, attribute, examples) not counted.
C12_ContentCounts ==
  \A c \in Calls :
    Returned(c) =>
      /\ Cardinality(ConceptDeclarations(content[c])) = Len(concepts[c])
      /\ Cardinality(RelationshipLines(content[c])) = Len(relationships[c])

\* The stages call c has started, in the order of their log lines.
StagesStarted(c) == SelectSeq(log[c], LAMBDA line : line \in StageSet)

StageIndex(stage) == CHOOSE i \in 1..Len(StageNames) : StageNames[i] = stage

\* C13: the stages of one call start in the order organization, reasoning,
\* enrichment, validation, aesthetics, conclusion, each at most once and
\* only when its flag is set, each after the stages started before it have
\* completed; the limitation comes after every enabled stage and the
\* rendering after the limitation.
C13_StageOrder ==
  \A c \in Calls :
    LET started == StagesStarted(c)
    IN  /\ \A i, j \in 1..Len(started) :
             i < j => StageIndex(started[i]) < StageIndex(started[j])
        /\ \A i \in 1..Len(started) : config[c].stages[started[i]]
        /\ metadata[c].stageResults \subseteq Range(started)
        /\ pc[c] # "threw" => Range(started) = metadata[c].stageResults
        /\ pc[c] = "threw" =>
             Range(started) \ metadata[c].stageResults = {started[Len(started)]}
        /\ pc[c] \in StageSet =>
             \A i \in 1..Len(started) : StageIndex(started[i]) < StageIndex(pc[c])
        /\ pc[c] \in {"limit", "render", "returned"} =>
             Range(started) = {st \in StageSet : config[c].stages[st]}
        /\ metadata[c].limitationApplied.applied => pc[c] \in {"render", "returned"}
        /\ content[c] # << >> => pc[c] \in {"returned", "returnedError"}

\* A returned call that ran some stages, and skipped one between two that
\* ran.
C13_Witness ==
  /\ Returned(1)
  /\ \E i, j, k \in 1..Len(StageNames) :
       /\ i < j /\ j < k
       /\ config[1].stages[StageNames[i]]
       /\ ~config[1].stages[StageNames[j]]
       /\ config[1].stages[StageNames[k]]
       /\ StageNames[i] \in metadata[1].stageResults
       /\ StageNames[k] \in metadata[1].stageResults
  /\ metadata[1].limitationApplied.applied

\* What one call holds: its position, its arguments, its Result, its log.
Mine(c) ==
  <<pc[c], text[c], config[c], concepts[c], relationships[c], metadata[c],
    knowledgeGraph[c], conceptEmojis[c], content[c], log[c], response[c],
    tasks[c], hierarchy[c], omitted[c]>>

\* The concepts step 1 extracts from the text of the call.
OwnConcepts(c) ==
  IF impl = "service" THEN step1_OrganizeAndHierarchize(text[c])
  ELSE step1_OrganizeAndHierarchize_p4(text[c])

\* The Result of the call is made of its own text: every concept is one
\* that step 1 extracts from it, every relationship connects two of them,
\* the counts are those of its lists and the document is the rendering of
\* its lists.
OwnResult(c) ==
  LET own == OwnConcepts(c)
  IN  /\ \A i \in 1..Len(concepts[c]) :
           \E j \in 1..Len(own) :
             /\ own[j].id = concepts[c][i].id
             /\ own[j].name = concepts[c][i].name
             /\ own[j].originalForm = concepts[c][i].originalForm
             /\ own[j].frequency = concepts[c][i].frequency
      /\ \A k \in 1..Len(relationships[c]) :
           /\ relationships[c][k].source \in Ids(own)
           /\ relationships[c][k].target \in Ids(own)
      /\ ~metadata[c].limitationApplied.applied =>
           Len(concepts[c]) = Len(own)
      /\ content[c] = Rendered(c)

\* C14: of two calls of processText interleaved on the shared service
\* instance, every step changes what one call holds and leaves what the
\* other call holds as it was, and a call that has returned holds a Result
\* made of its own text alone, as when it runs alone.
C14_CallsDoNotInterfere ==
  /\ [][\A c \in Calls : Mine(c)' # Mine(c) =>
          \A d \in Calls \ {c} : Mine(d)' = Mine(d)]_vars
  /\ [](\A c \in Calls : Returned(c) => OwnResult(c))

\* Both calls were in flight together with different texts, and both have
\* returned.
C14_Witness ==
  /\ Returned(1) /\ Returned(2)
  /\ text[1] # text[2]
  /\ Len(concepts[1]) # Len(concepts[2])
  /\ concepts[1] # << >> /\ concepts[2] # << >>

\* The tasks of call c that have been started and have not returned.
InFlight(c) ==
  {i \in 1..Len(tasks[c]) : tasks[c][i].at \notin {"waiting", "done"}}

\* C15: during the enrichment stage at most 5 tasks are in flight, no task
\* of a later batch has been started while a task of an earlier batch has
\* not returned, no task is started twice, and when the stage is complete
\* every concept has been enriched by exactly one run of its task, with the
\* enrichment of its own task, in whatever order the tasks were resumed.
C15_BatchedEnrichment ==
  \A c \in Calls :
    /\ Cardinality(InFlight(c)) <= 5
    /\ \A i, j \in 1..Len(tasks[c]) :
         BatchOf(i) < BatchOf(j) /\ tasks[c][j].at # "waiting"
           => tasks[c][i].at = "done"
    /\ \A i \in 1..Len(tasks[c]) :
         tasks[c][i].runs = IF tasks[c][i].at = "waiting" THEN 0 ELSE 1
    /\ pc[c] = "validation" =>
         /\ Len(tasks[c]) = Len(concepts[c])
         /\ \A i \in 1..Len(tasks[c]) :
              tasks[c][i].at = "done" /\ tasks[c][i].runs = 1
         /\ \E draws \in DrawSeqs([i \in 1..Len(OwnConcepts(c)) |->
                                      SubcategoryDraws(OwnConcepts(c)[i])]) :
              concepts[c] =
                step3_EnrichSemantically_p4(OwnConcepts(c), config[c], draws)

\* The stage is complete after two batches, the first one of 5 concepts.
C15_Witness ==
  /\ pc[1] = "validation"
  /\ Len(tasks[1]) > 5
  /\ \A i \in 1..Len(tasks[1]) : tasks[1][i].at = "done"

\* The tasks of call c whose enrichment failed or never completes.
Faulty(c) ==
  {i \in 1..Len(tasks[c]) : tasks[c][i].at \in {"failed", "hung"}}

\* Call c can take no step any more and has not returned: every task that
\* was started has returned or hangs, one hangs, and nothing times out.
Stuck(c) ==
  /\ pc[c] = "enriching"
  /\ \E i \in 1..Len(tasks[c]) : tasks[c][i].at = "hung"
  /\ InFlight(c) \subseteq Faulty(c)

C17_LowCoherenceWarning ==
  \A c \in Calls :
    "validation" \in metadata[c].stageResults =>
      /\ metadata[c].warnings > 0 <=> BelowHalf(metadata[c].coherenceScore)
      /\ metadata[c].warnings <= 1
      /\ metadata[c].warnings > 0 => pc[c] # "threw"

RECURSIVE TreeNodes(_)
TreeNodes(forest) ==
  IF forest = << >> THEN << >>
  ELSE <<Head(forest)>> \o TreeNodes(Head(forest).children)
         \o TreeNodes(Tail(forest))

\* C19: in the hierarchy createHierarchicalStructure builds, every node has
\* at most 4 children and the level of every child is the level of its
\* parent plus 1.
C19_FanOutAndLevels ==
  \A c \in Calls :
    \A i \in 1..Len(TreeNodes(hierarchy[c])) :
      LET node == TreeNodes(hierarchy[c])[i]
      IN  /\ Len(node.children) <= 4
          /\ \A k \in 1..Len(node.children) :
               node.children[k].level = node.level + 1

\* C20: the hierarchy is a forest over the concepts: no concept id is at
\* two places of it.
C20_HierarchyIsForest ==
  \A c \in Calls :
    \A i, j \in 1..Len(TreeNodes(hierarchy[c])) :
      TreeNodes(hierarchy[c])[i].id = TreeNodes(hierarchy[c])[j].id => i = j

\* C21: every relationship of a returned Result has a strength within
\* [1, 5] and a visualWeight that is one of the integers 1, 2, 3 (both in
\* tenths here), whichever stages ran.
C21_StrengthAndVisualWeight ==
  \A c \in Calls :
    Returned(c) =>
      \A k \in 1..Len(relationships[c]) :
        /\ 10 <= relationships[c][k].strength
        /\ relationships[c][k].strength <= 50
        /\ relationships[c][k].visualWeight \in {10, 20, 30}

\* The strength identifyConceptRelationships gave the relationship, in
\* tenths: Math.min(sharedSentences + 1, 5).
InitialStrength(rel) == 10 * Min(rel.sharedSentences + 1, 5)

\* C22: classifyRelationshipTypes of the service gives a relationship of
\* strength 4 or more one of the types of causality, classification and
\* composition, a relationship of strength 2 or 3 one of the types of
\* influence, sequence and dependency, and a weaker one the type of
\* association.
C22_TypeByStrengthBucket ==
  \A c \in Calls :
    impl = "service" =>
      \A k \in 1..Len(relationships[c]) :
        LET rel == relationships[c][k]
        IN  IF InitialStrength(rel) >= 40
            THEN rel.semanticCategory \in {"causalidad", "clasificación", "composición"}
            ELSE IF InitialStrength(rel) >= 20
            THEN rel.semanticCategory \in {"influencia", "secuencia", "dependencia"}
            ELSE rel.semanticCategory = "asociación"

\* The concepts whose importance is at least 0.4 times the mean importance
\* of the list, and those of level 0 or marked critical, in their order.
KeptByMeanImportance(cs) ==
  LET total == SumSeq([i \in 1..Len(cs) |-> cs[i].importance])
  IN  SelectSeq(cs, LAMBDA x :
        \/ x.level = 0
        \/ x.isCritical
        \/ 10 * Len(cs) * x.importance >= 4 * total)

\* filterIrrelevantConcepts applied to the concepts of call c.
Filtered(c) ==
  IF impl = "service" THEN filterIrrelevantConcepts(concepts[c], Scale(c))
  ELSE filterIrrelevantConcepts_p4(concepts[c])

\* C23: filterIrrelevantConcepts, applied to the concepts the validation
\* stage is given, removes exactly the concepts whose importance is below
\* 0.4 times the mean importance and that are neither of level 0 nor
\* critical, and keeps the others in their order.
C23_FilterByMeanImportance ==
  \A c \in Calls :
    pc[c] = "validation" /\ impl \in {"service", "part004"} =>
      Filtered(c) = KeptByMeanImportance(concepts[c])


\* removeRedundantConcepts applied to the filtered concepts of call c.
Deduplicated(c) ==
  IF impl = "service" THEN removeRedundantConcepts(Filtered(c))
  ELSE removeRedundantConcepts_p4(Filtered(c))

\* The name of a concept as removeRedundantConcepts compares it.
NormalizedName(concept) == LowerChars(JoinChars(concept.name))

\* C24: of two concepts given to removeRedundantConcepts whose names have a
\* similarity above 0.8, the one of higher importance is in the output and
\* the one of lower importance is not.
C24_KeepsHigherOfSimilarPair ==
  \A c \in Calls :
    pc[c] = "validation" /\ impl \in {"service", "part004"} =>
      LET input == Filtered(c)
          output == Deduplicated(c)
      IN  \A i, j \in 1..Len(input) :
            /\ IsSimilar(NormalizedName(input[i]), NormalizedName(input[j]))
            /\ input[i].importance > input[j].importance
            => /\ input[i] \in Range(output)
               /\ input[j] \notin Range(output)


\* Call c of part_004 has run its validation stage and no later stage.
Validated(c) ==
  /\ impl = "part004"
  /\ pc[c] = "aesthetics"
  /\ "validation" \in metadata[c].stageResults

\* The levels that hold a concept, and the number of pairs of adjacent
\* occupied levels of which the deeper one holds more concepts.
OccupiedLevels(cs) == {cs[i].level : i \in 1..Len(cs)}

CountAtLevel(cs, l) == Cardinality({i \in 1..Len(cs) : cs[i].level = l})

InvertedPairs(cs) ==
  Cardinality({p \in OccupiedLevels(cs) \X OccupiedLevels(cs) :
     /\ p[1] < p[2]
     /\ \A l \in OccupiedLevels(cs) : ~(p[1] < l /\ l < p[2])
     /\ CountAtLevel(cs, p[1]) < CountAtLevel(cs, p[2])})

\* The coherence score, in hundredths over the concepts, of a level-balance
\* signal given in tenths.
ScoreWithBalance(balance, cs, rels) ==
  LET N == Max(1, Len(cs))
  IN  Num(50 * Cardinality(Endpoints(rels)) + 3 * balance * N
            + densityTerm(Len(rels), N),
          100 * N)

\* C25 as stated: the level-balance signal that enters the coherence score
\* is 1.0 less 0.2 for every pair of adjacent occupied levels of which the
\* deeper one holds more concepts, at least 0.2, and so 1.0 when all
\* concepts are on one level.
C25_LevelBalance_AsStated ==
  \A c \in Calls : Validated(c) =>
    metadata[c].coherenceScore =
      ScoreWithBalance(Max(2, 10 - 2 * InvertedPairs(concepts[c])),
                       concepts[c], relationships[c])

\* C25, amended: the level-balance signal that enters the coherence score
\* is 0.5 when the concepts occupy at most one level; otherwise it is 1.0
\* less 0.2 for every pair of adjacent occupied levels of which the deeper
\* one holds more concepts, and at least 0.2.
C25_LevelBalance ==
  \A c \in Calls : Validated(c) =>
    metadata[c].coherenceScore =
      ScoreWithBalance(
        IF Cardinality(OccupiedLevels(concepts[c])) > 1
        THEN Max(2, 10 - 2 * InvertedPairs(concepts[c]))
        ELSE 5,
        concepts[c], relationships[c])

\* A validated call whose concepts occupy several levels with one inverted
\* pair.
C25_Witness ==
  \E c \in Calls :
    /\ Validated(c)
    /\ InvertedPairs(concepts[c]) > 0


\* The density of a validated call as the pair <<edges, max(1, concepts)>>,
\* and the density term of its coherence score: the score less the terms of
\* the connected concepts and of the level balance (0.2 * densityScore,
\* times 100 * N).
DensityOf(c) == <<Len(relationships[c]), Max(1, Len(concepts[c]))>>

DensitySignal(c) ==
  metadata[c].coherenceScore.num
    - 50 * Cardinality(Endpoints(relationships[c]))
    - 3 * Max(2, levelBalanceScore(concepts[c])) * DensityOf(c)[2]

\* C26: the density signal is highest at a density of 1.0 edge per concept
\* (where it is 0.8), does not decrease as the density grows up to 1.0 and
\* does not increase as it grows above 1.0.
C26_DensityPeaksAtOne ==
  \A c, d \in Calls : Validated(c) /\ Validated(d) =>
    LET Rc == DensityOf(c)[1]
        Nc == DensityOf(c)[2]
        Rd == DensityOf(d)[1]
        Nd == DensityOf(d)[2]
    IN  /\ DensitySignal(c) <= 16 * Nc
        /\ Rc * Nd <= Rd * Nc /\ Rd <= Nd
             => DensitySignal(c) * Nd <= DensitySignal(d) * Nc
        /\ Nc <= Rc /\ Rc * Nd <= Rd * Nc
             => DensitySignal(c) * Nd >= DensitySignal(d) * Nc


\* Call c has run its organization stage and no later stage.
Organized(c) ==
  /\ impl \in {"service", "part004"}
  /\ pc[c] = "reasoning"
  /\ "organization" \in metadata[c].stageResults

C28_GraphMatchesResult ==
  \A c \in Calls : Returned(c) /\ knowledgeGraph[c].defined =>
    /\ Range(knowledgeGraph[c].nodes) = Ids(concepts[c])
    /\ Len(knowledgeGraph[c].nodes) = Len(concepts[c])
    /\ knowledgeGraph[c].edges =
         [i \in 1..Len(relationships[c]) |->
            <<relationships[c][i].source, relationships[c][i].target>>]


\* C29: a stage whose flag the stages object of the configuration lacks
\* runs, as it does under the default configuration, in a direct call of
\* processText and in a call through generateMap.
C29_OmittedStageRuns ==
  \A c \in Calls : Returned(c) =>
    \A stage \in omitted[c] : stage \in Range(StagesStarted(c))


\* C30: every similarity that removeRedundantConcepts of part_004 computes,
\* of the name of a concept and the name of a concept kept before it in the
\* order of importance, is a number from 0 to 1.
C30_SimilarityInUnitInterval ==
  \A c \in Calls :
    pc[c] = "validation" /\ impl = "part004" =>
      LET sorted == StableSort(Filtered(c),
                               LAMBDA a, b : a.importance > b.importance)
          output == Deduplicated(c)
      IN  \A k \in 1..Len(sorted) : \A j \in 1..(k - 1) :
            sorted[j] \in Range(output) =>
              InUnitInterval(calculateStringSimilarity(NormalizedName(sorted[k]),
                                                       NormalizedName(sorted[j])))

=============================================================================
